---- MODULE Spec2Model ----
(***************************************************************************)
(* Session admission and accounting core of the load balancer              *)
(* (src/LoadBalancer/loadbalancer.js).                                     *)
(*                                                                         *)
(* The Redis store is the record `redis`; every route handler is a chain   *)
(* of store commands, one per `await`.  Each command is an operator that   *)
(* maps (store, handler locals) to (store, handler locals); Step picks the *)
(* operator for the handler's position.  Spec runs whole handlers one      *)
(* after the other (no overlapping requests), SpecAdmit does so for        *)
(* admissions alone, SpecRegistry for registry changes around sessions,    *)
(* SpecLog for the audit log, SpecSteady for executions without expiry,   *)
(* removal or lowered capacity, SpecLife for sessions that expire while    *)
(* the registry changes, SpecGrow for SpecLife without lowered capacity,   *)
(* SpecCorrupt for a store found with a malformed session record;          *)
(* SpecConc interleaves the commands of two handlers, SpecRace those of    *)
(* two admissions and SpecConcRegistry those of two registry writes.       *)
(*                                                                         *)
(* Stored JSON strings are kept in parsed form: every value the handlers   *)
(* write is an object of strings, numbers and booleans, which              *)
(* JSON.stringify / JSON.parse return unchanged.  The timestamp of an      *)
(* audit event (wall clock) is left out of the event.                      *)
(***************************************************************************)
EXTENDS Integers, Sequences, FiniteSets, TLC

VARIABLES redis, proc, admin

vars == <<redis, proc, admin>>

(* ---------------------------------------------------------------------- *)
(* Bounds of the model                                                     *)
(* ---------------------------------------------------------------------- *)

\* Requests that write the audit log start only while it holds fewer events.
MaxLog == 1

\* Requests that close sessions start only while every closedSessions
\* counter is below this.
MaxClosed == 1

\* Requests that change the registry (add, update, toggle, remove) and
\* advances of the clock in one behaviour.
MaxAdmin == 2

\* Requests in one behaviour of SpecLog.
MaxRecord == 3

\* Terminations, registry changes and clock steps in a behaviour of
\* SpecLife
MaxLife == 3

(* ---------------------------------------------------------------------- *)
(* Program constants                                                       *)
(* ---------------------------------------------------------------------- *)

\* const SESSION_TTL = 60 * 15
SESSION_TTL == 900

\* redis.ltrim('sessionEventsLog', 0, 99) keeps this many events
LOG_KEEP == 100

\* seedInitialApi: maxSessions of the seeded API
SEED_MAX_SESSIONS == 5

(* ---------------------------------------------------------------------- *)
(* Input domains                                                           *)
(* ---------------------------------------------------------------------- *)

\* API ids.  Object.entries() of the hgetall reply lists integer-like keys
\* in ascending numeric order, so with these ids the registry iteration
\* order is the order of this sequence.
ApiIdOrder == <<"1", "2">>

ApiIds == {ApiIdOrder[i] : i \in 1..Len(ApiIdOrder)}

UserIds == {"u1", "u2"}

\* The requesters of SpecAdmit, enough to fill two slots and ask once more.
ManyUserIds == {"u1", "u2", "u3"}

ApiKeys == {"k1", "k2"}

CharacterIds == {"c1"}

Capacities == {1, 2}

\* Handlers that may overlap in SpecConc.
Procs == {"p1", "p2"}

(* ---------------------------------------------------------------------- *)
(* Store primitives                                                        *)
(* ---------------------------------------------------------------------- *)

\* SET key value / HSET hash field value
Put(f, k, v) == [x \in DOMAIN f \cup {k} |-> IF x = k THEN v ELSE f[x]]

\* DEL key / HDEL hash field
Del(f, k) == [x \in DOMAIN f \ {k} |-> f[x]]

\* Number(await redis.get(key) || 0): a missing key reads as 0
GetNum(f, k) == IF k \in DOMAIN f THEN f[k] ELSE 0

\* INCRBY key n (INCR, DECR): a missing key counts from 0
IncrBy(f, k, n) == Put(f, k, GetNum(f, k) + n)

\* LTRIM list 0 stop
LTrim(list, stop) == SubSeq(list, 1, IF Len(list) < stop + 1 THEN Len(list) ELSE stop + 1)

EmptyMap == [x \in {} |-> 0]

(* ---------------------------------------------------------------------- *)
(* Handler locals and responses                                            *)
(* ---------------------------------------------------------------------- *)

NoBody == [apiId |-> "", apiKey |-> "", characterId |-> ""]

NoEvent == [type |-> "", userId |-> "", apiId |-> "", message |-> ""]

\* A handler that has not started: request body fields, then the handler's
\* local variables, then the response it has sent.
NoReq ==
  [op |-> "none", pc |-> "idle",
   userId |-> "", apiId |-> "", apiKey |-> "", characterId |-> "",
   maxSessions |-> 0, enabled |-> "undefined",
   pool |-> EmptyMap, idx |-> 0, target |-> "",
   currentSessions |-> 0, activeUsers |-> {}, cleared |-> 0,
   event |-> NoEvent,
   status |-> 0, message |-> "", body |-> NoBody, events |-> <<>>]

\* res.status(code).json(...) followed by return: the handler is over.
Respond(l, code, msg) == [l EXCEPT !.pc = "done", !.status = code, !.message = msg]

\* What stays of a finished handler: its request and its response.
Finished(l) ==
  [l EXCEPT !.pool = EmptyMap, !.idx = 0, !.target = "", !.currentSessions = 0,
            !.activeUsers = {}, !.event = NoEvent]

Out(st, l) == [st |-> st, l |-> l]

(* ---------------------------------------------------------------------- *)
(* logSessionEvent                                                         *)
(* ---------------------------------------------------------------------- *)

Event(type, userId, apiId, message) ==
  [type |-> type, userId |-> userId, apiId |-> apiId, message |-> message]

\* await redis.lpush('sessionEventsLog', JSON.stringify(event))
LogPush(st, l) ==
  Out([st EXCEPT !.sessionEventsLog = <<l.event>> \o @], [l EXCEPT !.pc = "log_ltrim"])

\* A logSessionEvent that pushes and never trims
LogTrimSkipped(st, l) == Out(st, [l EXCEPT !.pc = "done"])

\* await redis.ltrim('sessionEventsLog', 0, 99); the caller then responds
\* with the status and message it has settled on.
LogTrim(st, l) ==
  Out([st EXCEPT !.sessionEventsLog = LTrim(@, LOG_KEEP - 1)], [l EXCEPT !.pc = "done"])

\* await logSessionEvent(...); res.status(code).json(msg)
LogThenRespond(l, ev, code, msg) ==
  [l EXCEPT !.pc = "log_lpush", !.event = ev, !.status = code, !.message = msg]

(* ---------------------------------------------------------------------- *)
(* getAvailableAPI                                                         *)
(* ---------------------------------------------------------------------- *)

\* Object.entries(apiPoolData): the ids of the reply, in iteration order
Entries(pool) == SelectSeq(ApiIdOrder, LAMBDA id : id \in DOMAIN pool)

\* typeof data.maxSessions === 'number' && data.maxSessions > 0
WellFormedApi(data) == data.maxSessions > 0

\* A scan that never skips an entry for being disabled
NeverDisabled(data) == FALSE

\* data.enabled === false: the entry is skipped
IsDisabled(data) == data.enabled = FALSE

\* A comparison that also admits at full capacity: count <= data.maxSessions
HasRoomInclusive(count, data) == count <= data.maxSessions

\* count < data.maxSessions
HasRoom(count, data) == count < data.maxSessions

\* A scan that starts from the end of the registry: the last candidate at
\* or after position i instead of the first
NextScanLast(pool, i) ==
  LET order == SelectSeq(ApiIdOrder, LAMBDA id : id \in DOMAIN pool)
      cand == {j \in i..Len(order) :
                 pool[order[j]].maxSessions > 0 /\ pool[order[j]].enabled # FALSE}
  IN IF cand = {} THEN 0 ELSE CHOOSE j \in cand : \A k \in cand : j >= k

\* The next entry at or after position i whose counter the loop reads
\* (malformed and disabled entries are passed over without a store
\* command); 0 when the loop runs off the end.
NextScan(pool, i) ==
  LET order == Entries(pool)
      cand == {j \in i..Len(order) :
                 WellFormedApi(pool[order[j]]) /\ ~IsDisabled(pool[order[j]])}
  IN IF cand = {} THEN 0 ELSE CHOOSE j \in cand : \A k \in cand : j <= k

\* return null; the caller answers 503
NoneAvailable(l) == Respond(l, 503, "max_capacity")

\* let apiPoolData = await redis.hgetall('apiPool')
ScanHGetAll(st, l) ==
  LET i == NextScan(st.apiPool, 1)
  IN Out(st, IF i = 0 THEN NoneAvailable(l)
             ELSE [l EXCEPT !.pc = "scan_get", !.pool = st.apiPool, !.idx = i])

\* const count = Number(await redis.get(`api:${id}:sessions`) || 0);
\* if (count < data.maxSessions) return { id, ...data }
ScanGetCount(st, l) ==
  LET id == Entries(l.pool)[l.idx]
      count == GetNum(st.sessions, id)
      nxt == NextScan(l.pool, l.idx + 1)
  IN Out(st, IF HasRoom(count, l.pool[id])
             THEN [l EXCEPT !.pc = "assign_set", !.target = id]
             ELSE IF nxt = 0 THEN NoneAvailable(l)
             ELSE [l EXCEPT !.idx = nxt])

(* ---------------------------------------------------------------------- *)
(* POST /api/get-api-session                                               *)
(* ---------------------------------------------------------------------- *)

\* The structural check of the reuse path
ValidForReuse(v) == v.apiId # "" /\ v.apiKey # "" /\ v.characterId # ""

\* A reuse path that renews the session's TTL (a sliding expiry)
AssignGetRefreshing(st, l) ==
  IF l.userId = "" THEN Out(st, Respond(l, 400, "invalid_input"))
  ELSE IF l.userId \in DOMAIN st.user
  THEN LET v == st.user[l.userId].val
       IN IF ValidForReuse(v)
          THEN Out([st EXCEPT !.user[l.userId].ttl = SESSION_TTL],
                   [Respond(l, 200, "reused") EXCEPT !.body = v])
          ELSE Out(st, [l EXCEPT !.pc = "assign_del_corrupt"])
  ELSE Out(st, [l EXCEPT !.pc = "scan_hgetall"])

\* A reuse path that answers with the registry's current record of the
\* session's API instead of the stored session
AssignGetFromRegistry(st, l) ==
  IF l.userId = "" THEN Out(st, Respond(l, 400, "invalid_input"))
  ELSE IF l.userId \in DOMAIN st.user
  THEN LET v == st.user[l.userId].val
           cur == IF v.apiId \in DOMAIN st.apiPool
                  THEN [apiId |-> v.apiId, apiKey |-> st.apiPool[v.apiId].apiKey,
                        characterId |-> st.apiPool[v.apiId].characterId]
                  ELSE v
       IN IF v.apiId # "" /\ v.apiKey # "" /\ v.characterId # ""
          THEN Out(st, [Respond(l, 200, "reused") EXCEPT !.body = cur])
          ELSE Out(st, [l EXCEPT !.pc = "assign_del_corrupt"])
  ELSE Out(st, [l EXCEPT !.pc = "scan_hgetall"])

\* const existingSessionStr = await redis.get(`user:${userId}`)
AssignGet(st, l) ==
  IF l.userId = "" THEN Out(st, Respond(l, 400, "invalid_input"))
  ELSE IF l.userId \in DOMAIN st.user
  THEN LET v == st.user[l.userId].val
       IN IF ValidForReuse(v)
          THEN Out(st, [Respond(l, 200, "reused") EXCEPT !.body = v])
          ELSE Out(st, [l EXCEPT !.pc = "assign_del_corrupt"])
  ELSE Out(st, [l EXCEPT !.pc = "scan_hgetall"])

\* A cleanup that keeps the corrupt entry and goes on to find a new API
AssignKeepCorrupt(st, l) == Out(st, [l EXCEPT !.pc = "scan_hgetall"])

\* await redis.del(`user:${userId}`): the corrupt entry is dropped
AssignDelCorrupt(st, l) ==
  Out([st EXCEPT !.user = Del(@, l.userId)], [l EXCEPT !.pc = "scan_hgetall"])

\* sessionDataToStore
SessionData(l) ==
  [apiId |-> l.target, apiKey |-> l.pool[l.target].apiKey,
   characterId |-> l.pool[l.target].characterId]

\* await redis.set(`user:${userId}`, JSON.stringify(sessionDataToStore), 'EX', SESSION_TTL)
AssignSet(st, l) ==
  Out([st EXCEPT !.user = Put(@, l.userId, [val |-> SessionData(l), ttl |-> SESSION_TTL])],
      [l EXCEPT !.pc = "assign_incr"])

\* An admission that compares again as it counts: the counter is raised
\* only while it is below the capacity read by the scan
AssignIncrGuarded(st, l) ==
  Out([st EXCEPT !.sessions =
         IF GetNum(@, l.target) < l.pool[l.target].maxSessions
         THEN IncrBy(@, l.target, 1) ELSE @],
      [l EXCEPT !.pc = "assign_sadd"])

\* An admission that counts the session twice
AssignIncrTwice(st, l) ==
  Out([st EXCEPT !.sessions = IncrBy(@, l.target, 2)], [l EXCEPT !.pc = "assign_sadd"])

\* await redis.incr(`api:${targetAPI.id}:sessions`)
AssignIncr(st, l) ==
  Out([st EXCEPT !.sessions = IncrBy(@, l.target, 1)], [l EXCEPT !.pc = "assign_sadd"])

\* An admission that answers without adding the user to the API's user set
AssignSAddSkipped(st, l) ==
  Out(st, [Respond(l, 200, "assigned") EXCEPT !.body = SessionData(l)])

\* An admission that also records a session_started audit event
AssignSAddLogging(st, l) ==
  Out([st EXCEPT !.users[l.target] = @ \cup {l.userId}],
      [LogThenRespond(l, Event("session_started", l.userId, l.target, ""), 200, "assigned")
         EXCEPT !.body = SessionData(l)])

\* await redis.sadd(`api:${targetAPI.id}:users`, userId); res.json(sessionDataToStore)
AssignSAdd(st, l) ==
  Out([st EXCEPT !.users[l.target] = @ \cup {l.userId}],
      [Respond(l, 200, "assigned") EXCEPT !.body = SessionData(l)])

(* ---------------------------------------------------------------------- *)
(* POST /api/end-session                                                   *)
(* ---------------------------------------------------------------------- *)

\* The structural check of the termination path
ValidForEnd(v) == v.apiId # ""

\* An end-session that, finding no session, reconciles the counters: the
\* user leaves every user set that still holds it and each such API's
\* counter is lowered by one
EndGetReconciling(st, l) ==
  IF l.userId = "" THEN Out(st, Respond(l, 400, "invalid_input"))
  ELSE IF l.userId \notin DOMAIN st.user
  THEN Out([st EXCEPT !.users = [b \in DOMAIN @ |-> @[b] \ {l.userId}],
                      !.sessions = [b \in DOMAIN @ |->
                                      IF l.userId \in st.users[b] THEN @[b] - 1 ELSE @[b]]],
           LogThenRespond(l, Event("session_end_no_op", l.userId, "unknown",
                                   "No active session found."),
                          200, "no_active_session"))
  ELSE LET v == st.user[l.userId].val
       IN IF v.apiId # ""
          THEN Out(st, [l EXCEPT !.pc = "end_get_count", !.target = v.apiId])
          ELSE Out(st, [l EXCEPT !.pc = "end_del_corrupt"])

\* An end-session that, finding no session, also drops the user from every
\* API's user set
EndGetSweeping(st, l) ==
  IF l.userId = "" THEN Out(st, Respond(l, 400, "invalid_input"))
  ELSE IF l.userId \notin DOMAIN st.user
  THEN Out([st EXCEPT !.users = [b \in DOMAIN @ |-> @[b] \ {l.userId}]],
           LogThenRespond(l, Event("session_end_no_op", l.userId, "unknown",
                                   "No active session found."),
                          200, "no_active_session"))
  ELSE LET v == st.user[l.userId].val
       IN IF v.apiId # ""
          THEN Out(st, [l EXCEPT !.pc = "end_get_count", !.target = v.apiId])
          ELSE Out(st, [l EXCEPT !.pc = "end_del_corrupt"])

\* const sessionDataStr = await redis.get(`user:${userId}`), up to the next
\* store command
EndGet(st, l) ==
  IF l.userId = "" THEN Out(st, Respond(l, 400, "invalid_input"))
  ELSE IF l.userId \notin DOMAIN st.user
  THEN Out(st, LogThenRespond(l, Event("session_end_no_op", l.userId, "unknown",
                                       "No active session found."),
                              200, "no_active_session"))
  ELSE LET v == st.user[l.userId].val
       IN IF ValidForEnd(v)
          THEN Out(st, [l EXCEPT !.pc = "end_get_count", !.target = v.apiId])
          ELSE Out(st, [l EXCEPT !.pc = "end_del_corrupt"])

\* A corrupt-session path that reports the error and keeps the entry
EndKeepCorrupt(st, l) ==
  Out(st, LogThenRespond(l, Event("session_end_corrupt", l.userId, "unknown",
                                  "Corrupt session data cleared."),
                         500, "corrupt_session"))

\* await redis.del(`user:${userId}`) of a corrupt entry, then the
\* session_end_corrupt event and a 500
EndDelCorrupt(st, l) ==
  Out([st EXCEPT !.user = Del(@, l.userId)],
      LogThenRespond(l, Event("session_end_corrupt", l.userId, "unknown",
                              "Corrupt session data cleared."),
                     500, "corrupt_session"))

\* const currentSessions = Number(await redis.get(activeSessionsKey) || 0);
\* if (currentSessions > 0) decrement, else only warn
EndGetCount(st, l) ==
  LET n == GetNum(st.sessions, l.target)
  IN Out(st, [l EXCEPT !.currentSessions = n,
                       !.pc = IF n > 0 THEN "end_decr" ELSE "end_del"])

\* An end-session that leaves the counter alone
EndDecrSkipped(st, l) == Out(st, [l EXCEPT !.pc = "end_del"])

\* await redis.decr(activeSessionsKey)
EndDecr(st, l) ==
  Out([st EXCEPT !.sessions = IncrBy(@, l.target, -1)], [l EXCEPT !.pc = "end_del"])

\* await redis.del(`user:${userId}`)
EndDel(st, l) ==
  Out([st EXCEPT !.user = Del(@, l.userId)], [l EXCEPT !.pc = "end_srem"])

\* An end-session that leaves the user in the API's user set
EndSRemSkipped(st, l) == Out(st, [l EXCEPT !.pc = "end_incr_closed"])

\* await redis.srem(`api:${session.apiId}:users`, userId)
EndSRem(st, l) ==
  Out([st EXCEPT !.users[l.target] = @ \ {l.userId}], [l EXCEPT !.pc = "end_incr_closed"])

\* await redis.incr(`api:${session.apiId}:closedSessions`), then the
\* session_ended event and the success answer
EndIncrClosed(st, l) ==
  Out([st EXCEPT !.closedSessions = IncrBy(@, l.target, 1)],
      LogThenRespond(l, Event("session_ended", l.userId, l.target, ""),
                     200, "session_ended"))

(* ---------------------------------------------------------------------- *)
(* POST /api/end-all-sessions-for-api                                      *)
(* ---------------------------------------------------------------------- *)

\* A bulk end that does not look for the id in the registry
EndAllExistsSkipped(st, l) ==
  IF l.apiId = "" THEN Out(st, Respond(l, 400, "invalid_input"))
  ELSE Out(st, [l EXCEPT !.pc = "endall_smembers"])

\* const apiExists = await redis.hexists('apiPool', apiId)
EndAllExists(st, l) ==
  IF l.apiId = "" THEN Out(st, Respond(l, 400, "invalid_input"))
  ELSE IF l.apiId \notin DOMAIN st.apiPool THEN Out(st, Respond(l, 404, "not_found"))
  ELSE Out(st, [l EXCEPT !.pc = "endall_smembers"])

\* A bulk end that answers at once when the user set is empty, without
\* touching the counters
EndAllSMembersEarlyReturn(st, l) ==
  LET members == st.users[l.apiId]
  IN IF members = {} THEN Out(st, Respond(l, 200, "all_sessions_ended"))
     ELSE Out(st, [l EXCEPT !.activeUsers = members, !.pc = "endall_pipeline"])

\* const activeUsers = await redis.smembers(`api:${apiId}:users`)
EndAllSMembers(st, l) ==
  LET members == st.users[l.apiId]
  IN Out(st, [l EXCEPT !.activeUsers = members,
                       !.pc = IF members # {} THEN "endall_pipeline" ELSE "endall_reset"])

\* pipeline.del(`user:${userIdToClear}`) for every member, sessionsClearedCount++,
\* await pipeline.exec(): the commands go out in one batch on the one connection
EndAllPipeline(st, l) ==
  Out([st EXCEPT !.user = [u \in DOMAIN @ \ l.activeUsers |-> @[u]]],
      [l EXCEPT !.cleared = Cardinality(l.activeUsers), !.pc = "endall_reset"])

\* A bulk end that leaves the counter as it was
EndAllResetSkipped(st, l) == Out(st, [l EXCEPT !.pc = "endall_incrby"])

\* await redis.set(`api:${apiId}:sessions`, 0)
EndAllReset(st, l) ==
  Out([st EXCEPT !.sessions = Put(@, l.apiId, 0)], [l EXCEPT !.pc = "endall_incrby"])

\* A bulk end that overwrites the closed counter with the number cleared
EndAllSetClosed(st, l) ==
  Out([st EXCEPT !.closedSessions = Put(@, l.apiId, l.cleared)],
      [l EXCEPT !.pc = "endall_del_users"])

\* A bulk end that counts one closed session whatever the number cleared
EndAllIncrByOne(st, l) ==
  Out([st EXCEPT !.closedSessions = IncrBy(@, l.apiId, 1)],
      [l EXCEPT !.pc = "endall_del_users"])

\* await redis.incrby(`api:${apiId}:closedSessions`, sessionsClearedCount)
EndAllIncrBy(st, l) ==
  Out([st EXCEPT !.closedSessions = IncrBy(@, l.apiId, l.cleared)],
      [l EXCEPT !.pc = "endall_del_users"])

\* await redis.del(`api:${apiId}:users`), then the bulk_session_ended event
EndAllDelUsers(st, l) ==
  Out([st EXCEPT !.users[l.apiId] = {}],
      LogThenRespond(l, Event("bulk_session_ended", "N/A", l.apiId,
                              "Cleared " \o ToString(l.cleared) \o " sessions."),
                     200, "all_sessions_ended"))

(* ---------------------------------------------------------------------- *)
(* POST /api/add-api                                                       *)
(* ---------------------------------------------------------------------- *)

\* Request fields: a string that is missing, empty or blank is "", a
\* maxSessions that is missing or not a number is 0 (the handlers treat it
\* as they treat a number that is not positive), an enabled that is
\* missing or not a boolean is "undefined".
IsBool(e) == e \in {"true", "false"}

\* An add that does not look for the id in the registry and overwrites
AddExistsOverwriting(st, l) ==
  IF l.apiId = "" \/ l.apiKey = "" \/ l.characterId = "" \/ l.maxSessions <= 0
  THEN Out(st, Respond(l, 400, "invalid_input"))
  ELSE Out(st, [l EXCEPT !.pc = "add_hset"])

\* const exists = await redis.hexists('apiPool', apiId), after the
\* validation of the payload
AddExists(st, l) ==
  IF l.apiId = "" \/ l.apiKey = "" \/ l.characterId = "" \/ l.maxSessions <= 0
  THEN Out(st, Respond(l, 400, "invalid_input"))
  ELSE IF l.apiId \in DOMAIN st.apiPool THEN Out(st, Respond(l, 400, "already_exists"))
  ELSE Out(st, [l EXCEPT !.pc = "add_hset"])

\* const apiData = { apiKey, characterId, maxSessions, enabled: true };
\* await redis.hset('apiPool', apiId, JSON.stringify(apiData))
AddHSet(st, l) ==
  Out([st EXCEPT !.apiPool = Put(@, l.apiId,
         [apiKey |-> l.apiKey, characterId |-> l.characterId,
          maxSessions |-> l.maxSessions, enabled |-> TRUE])],
      [l EXCEPT !.pc = "add_set_sessions"])

\* await redis.set(`api:${apiId}:sessions`, 0)
AddSetSessions(st, l) ==
  Out([st EXCEPT !.sessions = Put(@, l.apiId, 0)], [l EXCEPT !.pc = "add_set_closed"])

\* An add that leaves the closedSessions key as it finds it
AddSetClosedSkipped(st, l) == Out(st, [l EXCEPT !.pc = "add_sadd_dummy"])

\* await redis.set(`api:${apiId}:closedSessions`, 0)
AddSetClosed(st, l) ==
  Out([st EXCEPT !.closedSessions = Put(@, l.apiId, 0)], [l EXCEPT !.pc = "add_sadd_dummy"])

\* await redis.sadd(`api:${apiId}:users`, 'dummy_init_value')
AddSAddDummy(st, l) ==
  Out([st EXCEPT !.users[l.apiId] = @ \cup {"dummy_init_value"}],
      [l EXCEPT !.pc = "add_srem_dummy"])

\* await redis.srem(`api:${apiId}:users`, 'dummy_init_value'); res.status(201)
AddSRemDummy(st, l) ==
  Out([st EXCEPT !.users[l.apiId] = @ \ {"dummy_init_value"}], Respond(l, 201, "api_added"))

(* ---------------------------------------------------------------------- *)
(* POST /api/update-api                                                    *)
(* ---------------------------------------------------------------------- *)

\* A merge that builds the record as add-api does, with enabled: true
MergedEnabled(l, old) ==
  [apiKey |-> IF l.apiKey # "" THEN l.apiKey ELSE old.apiKey,
   characterId |-> IF l.characterId # "" THEN l.characterId ELSE old.characterId,
   maxSessions |-> IF l.maxSessions > 0 THEN l.maxSessions ELSE old.maxSessions,
   enabled |-> TRUE]

\* updatedApiData: a supplied, valid field replaces the stored one
Merged(l, old) ==
  [apiKey |-> IF l.apiKey # "" THEN l.apiKey ELSE old.apiKey,
   characterId |-> IF l.characterId # "" THEN l.characterId ELSE old.characterId,
   maxSessions |-> IF l.maxSessions > 0 THEN l.maxSessions ELSE old.maxSessions,
   enabled |-> IF IsBool(l.enabled) THEN l.enabled = "true" ELSE old.enabled]

\* The check of the merged record
MergedOk(d) == d.apiKey # "" /\ d.characterId # "" /\ d.maxSessions > 0

\* const existingApiDataStr = await redis.hget('apiPool', apiId), the merge
\* and its check
UpdateHGet(st, l) ==
  IF l.apiId = "" THEN Out(st, Respond(l, 400, "invalid_input"))
  ELSE IF l.apiId \notin DOMAIN st.apiPool THEN Out(st, Respond(l, 404, "not_found"))
  ELSE IF ~MergedOk(Merged(l, st.apiPool[l.apiId]))
  THEN Out(st, Respond(l, 400, "invalid_input"))
  ELSE Out(st, [l EXCEPT !.pc = "update_hset",
                         !.pool = [x \in {l.apiId} |-> Merged(l, st.apiPool[l.apiId])]])

\* An update that also rewrites the credentials in the session records
\* bound to the API
UpdateHSetRewriting(st, l) ==
  Out([st EXCEPT !.apiPool = Put(@, l.apiId, l.pool[l.apiId]),
                 !.user = [u \in DOMAIN @ |->
                             IF @[u].val.apiId = l.apiId
                             THEN [@[u] EXCEPT !.val.apiKey = l.pool[l.apiId].apiKey,
                                               !.val.characterId = l.pool[l.apiId].characterId]
                             ELSE @[u]]],
      Respond(l, 200, "api_updated"))

\* await redis.hset('apiPool', apiId, JSON.stringify(updatedApiData))
UpdateHSet(st, l) ==
  Out([st EXCEPT !.apiPool = Put(@, l.apiId, l.pool[l.apiId])], Respond(l, 200, "api_updated"))

(* ---------------------------------------------------------------------- *)
(* POST /api/toggle-api-status                                             *)
(* ---------------------------------------------------------------------- *)

\* const existingApiDataStr = await redis.hget('apiPool', apiId);
\* existingApiData.enabled = enabled
ToggleHGet(st, l) ==
  IF l.apiId = "" \/ ~IsBool(l.enabled) THEN Out(st, Respond(l, 400, "invalid_input"))
  ELSE IF l.apiId \notin DOMAIN st.apiPool THEN Out(st, Respond(l, 404, "not_found"))
  ELSE Out(st, [l EXCEPT !.pc = "toggle_hset",
                         !.pool = [x \in {l.apiId} |->
                                     [st.apiPool[l.apiId] EXCEPT !.enabled = (l.enabled = "true")]]])

\* A toggle that also sets the API's session counter back to 0
ToggleHSetResetting(st, l) ==
  Out([st EXCEPT !.apiPool = Put(@, l.apiId, l.pool[l.apiId]),
                 !.sessions = Put(@, l.apiId, 0)],
      Respond(l, 200, "status_updated"))

\* A toggle that, when it disables an API, also drops the sessions of the
\* users of that API
ToggleHSetEvicting(st, l) ==
  Out([st EXCEPT !.apiPool = Put(@, l.apiId, l.pool[l.apiId]),
                 !.user = IF l.pool[l.apiId].enabled THEN @
                          ELSE [u \in {x \in DOMAIN @ : @[x].val.apiId # l.apiId} |-> @[u]]],
      Respond(l, 200, "status_updated"))

\* await redis.hset('apiPool', apiId, JSON.stringify(existingApiData))
ToggleHSet(st, l) ==
  Out([st EXCEPT !.apiPool = Put(@, l.apiId, l.pool[l.apiId])], Respond(l, 200, "status_updated"))

(* ---------------------------------------------------------------------- *)
(* DELETE /api/remove-api                                                  *)
(* ---------------------------------------------------------------------- *)

\* const exists = await redis.hexists('apiPool', apiId)
RemoveExists(st, l) ==
  IF l.apiId = "" THEN Out(st, Respond(l, 400, "invalid_input"))
  ELSE IF l.apiId \notin DOMAIN st.apiPool THEN Out(st, Respond(l, 404, "not_found"))
  ELSE Out(st, [l EXCEPT !.pc = "remove_hdel"])

\* await redis.hdel('apiPool', apiId)
RemoveHDel(st, l) ==
  Out([st EXCEPT !.apiPool = Del(@, l.apiId)], [l EXCEPT !.pc = "remove_del_sessions"])

\* await redis.del(`api:${apiId}:sessions`)
RemoveDelSessions(st, l) ==
  Out([st EXCEPT !.sessions = Del(@, l.apiId)], [l EXCEPT !.pc = "remove_del_closed"])

\* await redis.del(`api:${apiId}:closedSessions`)
RemoveDelClosed(st, l) ==
  Out([st EXCEPT !.closedSessions = Del(@, l.apiId)], [l EXCEPT !.pc = "remove_del_users"])

\* A removal that cascades: the sessions of the users in the API's user
\* set are deleted with the set
RemoveDelUsersCascading(st, l) ==
  Out([st EXCEPT !.users[l.apiId] = {},
                 !.user = [u \in DOMAIN @ \ st.users[l.apiId] |-> @[u]]],
      Respond(l, 200, "api_removed"))

\* await redis.del(`api:${apiId}:users`); res.json
RemoveDelUsers(st, l) ==
  Out([st EXCEPT !.users[l.apiId] = {}], Respond(l, 200, "api_removed"))

(* ---------------------------------------------------------------------- *)
(* GET and DELETE /api/session-events                                      *)
(* ---------------------------------------------------------------------- *)

\* const rawEvents = await redis.lrange('sessionEventsLog', 0, 99)
EventsLRange(st, l) ==
  Out(st, [Respond(l, 200, "events") EXCEPT !.events = LTrim(st.sessionEventsLog, 99)])

\* await redis.del('sessionEventsLog')
EventsDel(st, l) ==
  Out([st EXCEPT !.sessionEventsLog = <<>>], Respond(l, 200, "logs_cleared"))

(* ---------------------------------------------------------------------- *)
(* Running a handler                                                       *)
(* ---------------------------------------------------------------------- *)

\* The store command a handler issues first.
FirstPc(op) ==
  CASE op = "get-api-session" -> "assign_get"
    [] op = "end-session" -> "end_get"
    [] op = "end-all-sessions-for-api" -> "endall_exists"
    [] op = "add-api" -> "add_exists"
    [] op = "update-api" -> "update_hget"
    [] op = "toggle-api-status" -> "toggle_hget"
    [] op = "remove-api" -> "remove_exists"
    [] op = "get-session-events" -> "events_lrange"
    [] op = "delete-session-events" -> "events_del"

\* One store command of a handler, with the synchronous code up to its
\* next store command (or its response).
Step(st, l) ==
  CASE l.pc = "assign_get" -> AssignGet(st, l)
    [] l.pc = "assign_del_corrupt" -> AssignDelCorrupt(st, l)
    [] l.pc = "scan_hgetall" -> ScanHGetAll(st, l)
    [] l.pc = "scan_get" -> ScanGetCount(st, l)
    [] l.pc = "assign_set" -> AssignSet(st, l)
    [] l.pc = "assign_incr" -> AssignIncr(st, l)
    [] l.pc = "assign_sadd" -> AssignSAdd(st, l)
    [] l.pc = "end_get" -> EndGet(st, l)
    [] l.pc = "end_del_corrupt" -> EndDelCorrupt(st, l)
    [] l.pc = "end_get_count" -> EndGetCount(st, l)
    [] l.pc = "end_decr" -> EndDecr(st, l)
    [] l.pc = "end_del" -> EndDel(st, l)
    [] l.pc = "end_srem" -> EndSRem(st, l)
    [] l.pc = "end_incr_closed" -> EndIncrClosed(st, l)
    [] l.pc = "endall_exists" -> EndAllExists(st, l)
    [] l.pc = "endall_smembers" -> EndAllSMembers(st, l)
    [] l.pc = "endall_pipeline" -> EndAllPipeline(st, l)
    [] l.pc = "endall_reset" -> EndAllReset(st, l)
    [] l.pc = "endall_incrby" -> EndAllIncrBy(st, l)
    [] l.pc = "endall_del_users" -> EndAllDelUsers(st, l)
    [] l.pc = "add_exists" -> AddExists(st, l)
    [] l.pc = "add_hset" -> AddHSet(st, l)
    [] l.pc = "add_set_sessions" -> AddSetSessions(st, l)
    [] l.pc = "add_set_closed" -> AddSetClosed(st, l)
    [] l.pc = "add_sadd_dummy" -> AddSAddDummy(st, l)
    [] l.pc = "add_srem_dummy" -> AddSRemDummy(st, l)
    [] l.pc = "update_hget" -> UpdateHGet(st, l)
    [] l.pc = "update_hset" -> UpdateHSet(st, l)
    [] l.pc = "toggle_hget" -> ToggleHGet(st, l)
    [] l.pc = "toggle_hset" -> ToggleHSet(st, l)
    [] l.pc = "remove_exists" -> RemoveExists(st, l)
    [] l.pc = "remove_hdel" -> RemoveHDel(st, l)
    [] l.pc = "remove_del_sessions" -> RemoveDelSessions(st, l)
    [] l.pc = "remove_del_closed" -> RemoveDelClosed(st, l)
    [] l.pc = "remove_del_users" -> RemoveDelUsers(st, l)
    [] l.pc = "events_lrange" -> EventsLRange(st, l)
    [] l.pc = "events_del" -> EventsDel(st, l)
    [] l.pc = "log_lpush" -> LogPush(st, l)
    [] l.pc = "log_ltrim" -> LogTrim(st, l)

\* A handler run from its current position to its response, with no other
\* handler's command in between.
RECURSIVE Run(_, _)
Run(st, l) == IF l.pc = "done" THEN Out(st, l) ELSE LET o == Step(st, l) IN Run(o.st, o.l)

(* ---------------------------------------------------------------------- *)
(* Requests                                                                *)
(* ---------------------------------------------------------------------- *)

Req(op) == [NoReq EXCEPT !.op = op, !.pc = FirstPc(op)]

AssignReq(u) == [Req("get-api-session") EXCEPT !.userId = u]

EndReq(u) == [Req("end-session") EXCEPT !.userId = u]

EndAllReq(id) == [Req("end-all-sessions-for-api") EXCEPT !.apiId = id]

AddReq(id, key, ch, max) ==
  [Req("add-api") EXCEPT !.apiId = id, !.apiKey = key, !.characterId = ch, !.maxSessions = max]

UpdateReq(id, key, ch, max, en) ==
  [Req("update-api") EXCEPT !.apiId = id, !.apiKey = key, !.characterId = ch,
                            !.maxSessions = max, !.enabled = en]

ToggleReq(id, en) == [Req("toggle-api-status") EXCEPT !.apiId = id, !.enabled = en]

RemoveReq(id) == [Req("remove-api") EXCEPT !.apiId = id]

\* The requests that append to the audit log or raise a closedSessions
\* counter are sent only while the log and the counters are small.
Small(st) ==
  /\ Len(st.sessionEventsLog) < MaxLog
  /\ \A id \in DOMAIN st.closedSessions : st.closedSessions[id] < MaxClosed

(* ---------------------------------------------------------------------- *)
(* Initial state: the store after ensureApiPool and seedInitialApi ran on  *)
(* an empty store.  The seeded credential strings are written k1 and c1.   *)
(* ---------------------------------------------------------------------- *)

SeededStore ==
  [apiPool |-> [x \in {"1"} |-> [apiKey |-> "k1", characterId |-> "c1",
                                  maxSessions |-> SEED_MAX_SESSIONS, enabled |-> TRUE]],
   sessions |-> [x \in {"1"} |-> 0],
   closedSessions |-> [x \in {"1"} |-> 0],
   users |-> [x \in ApiIds |-> {}],
   user |-> EmptyMap,
   sessionEventsLog |-> <<>>]

Init ==
  /\ redis = SeededStore
  /\ proc = [p \in Procs |-> NoReq]
  /\ admin = 0

(* ---------------------------------------------------------------------- *)
(* The clock.  A session key set with EX SESSION_TTL is gone once          *)
(* SESSION_TTL seconds have passed; ttl is the time the key has left.      *)
(* ---------------------------------------------------------------------- *)

\* An expiry that also releases the slot: the counter of the session's API
\* is lowered and the user leaves its user set
ExpiredReleasing(st, d) ==
  LET gone == {x \in DOMAIN st.user : st.user[x].ttl <= d}
  IN [st EXCEPT !.user = [u \in DOMAIN @ \ gone |-> [@[u] EXCEPT !.ttl = @ - d]],
                !.users = [b \in DOMAIN @ |-> @[b] \ gone],
                !.sessions = [b \in DOMAIN @ |->
                                @[b] - Cardinality({x \in gone : st.user[x].val.apiId = b})]]

\* The store after d more seconds
Expired(st, d) ==
  [st EXCEPT !.user = [u \in {x \in DOMAIN @ : @[x].ttl > d} |->
                         [@[u] EXCEPT !.ttl = @ - d]]]

\* Half a TTL or a whole TTL passes.
Tick ==
  \E d \in {SESSION_TTL \div 2, SESSION_TTL} :
    /\ redis.user # EmptyMap
    /\ admin < MaxAdmin
    /\ admin' = admin + 1
    /\ redis' = Expired(redis, d)
    /\ UNCHANGED proc

(* ---------------------------------------------------------------------- *)
(* Spec: requests handled one after the other                              *)
(* ---------------------------------------------------------------------- *)

Idle == \A p \in Procs : proc[p].pc = "idle"

\* The whole handler of one request.
Serve(req) ==
  /\ Idle
  /\ redis' = Run(redis, req).st
  /\ UNCHANGED proc

\* A request that changes the registry uses up one of the MaxAdmin.
CountAdmin == admin < MaxAdmin /\ admin' = admin + 1

GetApiSession == \E u \in UserIds : Serve(AssignReq(u)) /\ UNCHANGED admin

EndSession == \E u \in UserIds : Small(redis) /\ Serve(EndReq(u)) /\ UNCHANGED admin

EndAllSessionsForApi ==
  \E id \in ApiIds : Small(redis) /\ Serve(EndAllReq(id)) /\ UNCHANGED admin

AddApi ==
  \E id \in ApiIds, max \in Capacities : CountAdmin /\ Serve(AddReq(id, "k1", "c1", max))

UpdateApi ==
  \E id \in ApiIds, key \in {"", "k2"}, max \in Capacities \cup {0} :
    CountAdmin /\ Serve(UpdateReq(id, key, "", max, "undefined"))

ToggleApiStatus ==
  \E id \in ApiIds, en \in {"true", "false"} : CountAdmin /\ Serve(ToggleReq(id, en))

RemoveApi == \E id \in ApiIds : CountAdmin /\ Serve(RemoveReq(id))

GetSessionEvents == Serve(Req("get-session-events")) /\ UNCHANGED admin

DeleteSessionEvents == Serve(Req("delete-session-events")) /\ UNCHANGED admin

Next ==
  \/ GetApiSession
  \/ EndSession
  \/ EndAllSessionsForApi
  \/ AddApi
  \/ UpdateApi
  \/ ToggleApiStatus
  \/ RemoveApi
  \/ GetSessionEvents
  \/ DeleteSessionEvents
  \/ Tick

Spec == Init /\ [][Next]_vars

(* ---------------------------------------------------------------------- *)
(* SpecAdmit: the registry is set up, then requesters are admitted one at  *)
(* a time; nothing is terminated.                                          *)
(* ---------------------------------------------------------------------- *)

NoSessionYet == redis.user = EmptyMap

SetUpAdd == NoSessionYet /\ AddApi

SetUpUpdate == NoSessionYet /\ UpdateApi

Admit == \E u \in ManyUserIds : Serve(AssignReq(u)) /\ UNCHANGED admin

NextAdmit == SetUpAdd \/ SetUpUpdate \/ Admit

SpecAdmit == Init /\ [][NextAdmit]_vars

(* ---------------------------------------------------------------------- *)
(* SpecRegistry: the registry is changed while sessions are created and    *)
(* ended, one request after the other, with no expiry                      *)
(* ---------------------------------------------------------------------- *)

RegistryAssign == \E u \in UserIds : Serve(AssignReq(u)) /\ UNCHANGED admin

RegistryEnd == \E u \in UserIds : Small(redis) /\ Serve(EndReq(u)) /\ UNCHANGED admin

RegistryAdd == \E id \in ApiIds : CountAdmin /\ Serve(AddReq(id, "k1", "c1", 1))

RegistryUpdate == \E id \in ApiIds : CountAdmin /\ Serve(UpdateReq(id, "k2", "", 0, "undefined"))

RegistryToggle ==
  \E id \in ApiIds, en \in {"true", "false"} : CountAdmin /\ Serve(ToggleReq(id, en))

RegistryRemove == \E id \in ApiIds : CountAdmin /\ Serve(RemoveReq(id))

NextRegistry ==
  \/ RegistryAssign
  \/ RegistryEnd
  \/ RegistryAdd
  \/ RegistryUpdate
  \/ RegistryToggle
  \/ RegistryRemove

SpecRegistry == Init /\ [][NextRegistry]_vars

(* ---------------------------------------------------------------------- *)
(* SpecLog: the audit log is written, read and cleared, starting empty,    *)
(* one event short of full, or full                                        *)
(* ---------------------------------------------------------------------- *)

\* The log after n end-session requests that found no session, sent in turn
\* by u2 and u1 (the newest event is the first)
FilledLog(n) ==
  [i \in 1..n |-> Event("session_end_no_op", IF i % 2 = 1 THEN "u1" ELSE "u2",
                        "unknown", "No active session found.")]

InitLog ==
  /\ \E n \in {0, LOG_KEEP - 1, LOG_KEEP} :
       redis = [SeededStore EXCEPT !.sessionEventsLog = FilledLog(n)]
  /\ proc = [p \in Procs |-> NoReq]
  /\ admin = 0

\* One more of the MaxRecord requests
CountRecord == admin < MaxRecord /\ admin' = admin + 1

LogAssign == \E u \in UserIds : CountRecord /\ Serve(AssignReq(u))

LogEnd == \E u \in UserIds : CountRecord /\ Serve(EndReq(u))

LogEndAll == \E id \in ApiIds : CountRecord /\ Serve(EndAllReq(id))

LogRead == CountRecord /\ Serve(Req("get-session-events"))

LogClear == CountRecord /\ Serve(Req("delete-session-events"))

NextLog == LogAssign \/ LogEnd \/ LogEndAll \/ LogRead \/ LogClear

SpecLog == InitLog /\ [][NextLog]_vars

(* ---------------------------------------------------------------------- *)
(* SpecSteady: one request after the other, with no expiry, no removal    *)
(* and no update that lowers a capacity                                    *)
(* ---------------------------------------------------------------------- *)

SteadyAssign == \E u \in UserIds : Serve(AssignReq(u)) /\ UNCHANGED admin

SteadyEnd == \E u \in UserIds : Small(redis) /\ Serve(EndReq(u)) /\ UNCHANGED admin

SteadyEndAll == \E id \in ApiIds : Small(redis) /\ Serve(EndAllReq(id)) /\ UNCHANGED admin

SteadyAdd ==
  \E id \in ApiIds, max \in Capacities : CountAdmin /\ Serve(AddReq(id, "k1", "c1", max))

\* update-api with a capacity at or above the current one, or with none
SteadyRaise ==
  \E id \in ApiIds, key \in {"", "k2"}, max \in Capacities \cup {0, SEED_MAX_SESSIONS + 1} :
    /\ id \in DOMAIN redis.apiPool => max = 0 \/ max >= redis.apiPool[id].maxSessions
    /\ CountAdmin
    /\ Serve(UpdateReq(id, key, "", max, "undefined"))

SteadyToggle ==
  \E id \in ApiIds, en \in {"true", "false"} : CountAdmin /\ Serve(ToggleReq(id, en))

SteadyClear == Serve(Req("delete-session-events")) /\ UNCHANGED admin

NextSteady ==
  \/ SteadyAssign
  \/ SteadyEnd
  \/ SteadyEndAll
  \/ SteadyAdd
  \/ SteadyRaise
  \/ SteadyToggle
  \/ SteadyClear

SpecSteady == Init /\ [][NextSteady]_vars

(* ---------------------------------------------------------------------- *)
(* SpecLife: sessions are created, reused, ended and left to expire while  *)
(* the registry changes, one request after the other                       *)
(* ---------------------------------------------------------------------- *)

CountLife == admin < MaxLife /\ admin' = admin + 1

LifeAssign == \E u \in UserIds : Serve(AssignReq(u)) /\ UNCHANGED admin

LifeEnd == \E u \in UserIds : CountLife /\ Serve(EndReq(u))

LifeEndAll == \E id \in ApiIds : CountLife /\ Serve(EndAllReq(id))

LifeRemove == \E id \in ApiIds : CountLife /\ Serve(RemoveReq(id))

LifeAdd == \E id \in ApiIds, max \in Capacities : CountLife /\ Serve(AddReq(id, "k1", "c1", max))

LifeUpdate ==
  \E id \in ApiIds, key \in {"", "k2"}, max \in Capacities \cup {0} :
    CountLife /\ Serve(UpdateReq(id, key, "", max, "undefined"))

LifeToggle == \E id \in ApiIds, en \in {"true", "false"} : CountLife /\ Serve(ToggleReq(id, en))

\* Half a TTL or a whole TTL passes.
LifeTick ==
  \E d \in {SESSION_TTL \div 2, SESSION_TTL} :
    /\ redis.user # EmptyMap
    /\ CountLife
    /\ redis' = Expired(redis, d)
    /\ UNCHANGED proc

NextLife ==
  \/ LifeAssign
  \/ LifeEnd
  \/ LifeEndAll
  \/ LifeRemove
  \/ LifeAdd
  \/ LifeUpdate
  \/ LifeToggle
  \/ LifeTick

SpecLife == Init /\ [][NextLife]_vars

(* ---------------------------------------------------------------------- *)
(* SpecCorrupt: the server starts on a store that already holds a session  *)
(* record which fails the handlers' structural checks (a field missing or  *)
(* blank), counted by API 1 or not; then requests one after the other      *)
(* ---------------------------------------------------------------------- *)

\* Session records that fail a structural check; "" stands for a field that
\* is missing, not a string, or blank
MalformedRecords ==
  {[apiId |-> "", apiKey |-> "k1", characterId |-> "c1"],
   [apiId |-> "1", apiKey |-> "", characterId |-> "c1"],
   [apiId |-> "1", apiKey |-> "k1", characterId |-> ""]}

InitCorrupt ==
  /\ \E v \in MalformedRecords, counted \in BOOLEAN :
       redis = [SeededStore EXCEPT
                  !.user = Put(@, "u1", [val |-> v, ttl |-> SESSION_TTL]),
                  !.sessions["1"] = IF counted THEN 1 ELSE 0,
                  !.users["1"] = IF counted THEN {"u1"} ELSE {}]
  /\ proc = [p \in Procs |-> NoReq]
  /\ admin = 0

NextCorrupt ==
  \/ LifeAssign
  \/ LifeEnd
  \/ LifeEndAll
  \/ LifeUpdate
  \/ LifeToggle

SpecCorrupt == InitCorrupt /\ [][NextCorrupt]_vars

(* ---------------------------------------------------------------------- *)
(* SpecGrow: SpecLife without updates that lower a capacity                *)
(* ---------------------------------------------------------------------- *)

\* update-api with a capacity at or above the current one, or with none
GrowUpdate ==
  \E id \in ApiIds, key \in {"", "k2"}, max \in Capacities \cup {0, SEED_MAX_SESSIONS + 1} :
    /\ id \in DOMAIN redis.apiPool => max = 0 \/ max >= redis.apiPool[id].maxSessions
    /\ CountLife
    /\ Serve(UpdateReq(id, key, "", max, "undefined"))

NextGrow ==
  \/ LifeAssign
  \/ LifeEnd
  \/ LifeEndAll
  \/ LifeRemove
  \/ LifeAdd
  \/ GrowUpdate
  \/ LifeToggle
  \/ LifeTick

SpecGrow == Init /\ [][NextGrow]_vars

(* ---------------------------------------------------------------------- *)
(* SpecConc: two handlers at a time, one store command per step, on a      *)
(* store with one API of capacity 1 or 2                                   *)
(* ---------------------------------------------------------------------- *)

InFlight(p) == proc[p].pc \notin {"idle", "done"}

\* A request arrives; its handler has issued no store command yet.
Begin(p, req) ==
  /\ ~InFlight(p)
  /\ proc' = [proc EXCEPT ![p] = req]
  /\ UNCHANGED redis

ConcGetApiSession == \E p \in Procs, u \in UserIds : Begin(p, AssignReq(u)) /\ UNCHANGED admin

ConcEndSession ==
  \E p \in Procs, u \in UserIds : Small(redis) /\ Begin(p, EndReq(u)) /\ UNCHANGED admin

ConcEndAllSessionsForApi ==
  \E p \in Procs, id \in ApiIds : Small(redis) /\ Begin(p, EndAllReq(id)) /\ UNCHANGED admin

\* The next store command of a handler in flight, and the code after it
\* up to the following store command or the response.
Advance ==
  \E p \in Procs :
    /\ InFlight(p)
    /\ LET o == Step(redis, proc[p])
       IN /\ redis' = o.st
          /\ proc' = [proc EXCEPT ![p] = IF o.l.pc = "done" THEN Finished(o.l) ELSE o.l]
    /\ UNCHANGED admin

NextConc == ConcGetApiSession \/ ConcEndSession \/ ConcEndAllSessionsForApi \/ Advance

\* The seeded store after update-api has set the capacity of API 1.
InitConc ==
  /\ \E max \in Capacities : redis = [SeededStore EXCEPT !.apiPool["1"].maxSessions = max]
  /\ proc = [p \in Procs |-> NoReq]
  /\ admin = 0

SpecConc == InitConc /\ [][NextConc]_vars

(* ---------------------------------------------------------------------- *)
(* SpecConcRegistry: update-api and toggle-api-status, two handlers at a   *)
(* time, one store command per step, on the seeded store                   *)
(* ---------------------------------------------------------------------- *)

ConcUpdateApi ==
  \E p \in Procs, id \in ApiIds, key \in {"", "k2"}, max \in Capacities \cup {0} :
    Begin(p, UpdateReq(id, key, "", max, "undefined")) /\ UNCHANGED admin

ConcToggleApiStatus ==
  \E p \in Procs, id \in ApiIds, en \in {"true", "false"} :
    Begin(p, ToggleReq(id, en)) /\ UNCHANGED admin

NextConcRegistry == ConcUpdateApi \/ ConcToggleApiStatus \/ Advance

SpecConcRegistry == InitConc /\ [][NextConcRegistry]_vars

(* ---------------------------------------------------------------------- *)
(* SpecRace: SpecConc with admissions only                                 *)
(* ---------------------------------------------------------------------- *)

NextRace == ConcGetApiSession \/ Advance

SpecRace == InitConc /\ [][NextRace]_vars

(* ---------------------------------------------------------------------- *)
(* Vocabulary of the claims                                                *)
(* ---------------------------------------------------------------------- *)

\* activeCount, closedCount and activeUsers of a backend, as a reader of
\* the store sees them
ActiveCount(st, b) == IF b \in DOMAIN st.sessions THEN st.sessions[b] ELSE 0

ClosedCount(st, b) == IF b \in DOMAIN st.closedSessions THEN st.closedSessions[b] ELSE 0

ActiveUsers(st, b) == st.users[b]

HasSession(st, u) == u \in DOMAIN st.user

\* A registered backend that is enabled and below its capacity
Eligible(st, b) ==
  /\ b \in DOMAIN st.apiPool
  /\ st.apiPool[b].enabled
  /\ ActiveCount(st, b) < st.apiPool[b].maxSessions

\* The place of an id in the registry iteration order
Position(b) == CHOOSE i \in 1..Len(ApiIdOrder) : ApiIdOrder[i] = b

SameCounters(s, t) ==
  \A b \in ApiIds :
    /\ ActiveCount(s, b) = ActiveCount(t, b)
    /\ ClosedCount(s, b) = ClosedCount(t, b)
    /\ ActiveUsers(s, b) = ActiveUsers(t, b)

\* What get-api-session, end-session and end-all-sessions-for-api do when
\* run from the current store with no other request in between
Assigned(u) == Run(redis, AssignReq(u))

Ended(u) == Run(redis, EndReq(u))

EndedAll(b) == Run(redis, EndAllReq(b))

(* ---------------------------------------------------------------------- *)
(* C1                                                                      *)
(* ---------------------------------------------------------------------- *)

\* Every registered backend is enabled and has capacity c.
Uniform(st, c) ==
  \A b \in DOMAIN st.apiPool : st.apiPool[b].enabled /\ st.apiPool[b].maxSessions = c

\* C1: with N enabled backends of capacity C, counters starting at zero and
\* requesters admitted one at a time with no expiry and no termination, an
\* admission of a new requester succeeds while fewer than N x C have been
\* admitted, and fails with 503 (all at max capacity) once N x C have been.
C1_FillThenExhausted ==
  \A c \in Capacities \cup {SEED_MAX_SESSIONS} :
    Uniform(redis, c) =>
      LET n == Cardinality(DOMAIN redis.apiPool)
          k == Cardinality(DOMAIN redis.user)
      IN /\ k <= n * c
         /\ \A u \in ManyUserIds \ DOMAIN redis.user :
              /\ k < n * c => Assigned(u).l.status = 200
              /\ k = n * c => /\ Assigned(u).l.status = 503
                              /\ Assigned(u).l.message = "max_capacity"

\* Two backends of capacity 1 hold two requesters and the third is refused.
C1_Witness ==
  /\ Cardinality(DOMAIN redis.apiPool) = 2
  /\ Uniform(redis, 1)
  /\ DOMAIN redis.user = {"u1", "u2"}
  /\ Assigned("u3").l.status = 503

(* ---------------------------------------------------------------------- *)
(* C2                                                                      *)
(* ---------------------------------------------------------------------- *)

\* C2: with a single enabled backend b of capacity 1 and no session,
\* get-api-session(u1) binds u1 to b, get-api-session(u2) then fails with
\* 503, and after end-session(u1) get-api-session(u2) binds u2 to b.
C2_TerminateFreesSlot ==
  \A b \in ApiIds :
    ( /\ DOMAIN redis.apiPool = {b}
      /\ redis.apiPool[b].enabled
      /\ redis.apiPool[b].maxSessions = 1
      /\ ActiveCount(redis, b) = 0
      /\ redis.user = EmptyMap ) =>
        LET a1 == Run(redis, AssignReq("u1"))
            a2 == Run(a1.st, AssignReq("u2"))
            e1 == Run(a2.st, EndReq("u1"))
            a3 == Run(e1.st, AssignReq("u2"))
        IN /\ a1.l.status = 200 /\ a1.l.body.apiId = b
           /\ a2.l.status = 503
           /\ e1.l.status = 200 /\ e1.l.message = "session_ended"
           /\ a3.l.status = 200 /\ a3.l.body.apiId = b
           /\ HasSession(a3.st, "u2") /\ a3.st.user["u2"].val.apiId = b

\* The end of the scenario: u1's session on the only backend, of capacity
\* 1, has been ended and u2 now holds the slot.
C2_Witness ==
  \E b \in ApiIds :
    /\ DOMAIN redis.apiPool = {b}
    /\ redis.apiPool[b].maxSessions = 1
    /\ redis.sessionEventsLog # <<>>
    /\ Head(redis.sessionEventsLog) = Event("session_ended", "u1", b, "")
    /\ DOMAIN redis.user = {"u2"}
    /\ redis.user["u2"].val.apiId = b
    /\ ActiveCount(redis, b) = 1

(* ---------------------------------------------------------------------- *)
(* C3                                                                      *)
(* ---------------------------------------------------------------------- *)

\* C3: for a requester with a valid session, get-api-session answers 200
\* with the binding of the session record and changes nothing in the store;
\* and the record of a new session holds the binding that its creation
\* returned.
C3_ReuseSameBinding ==
  \A u \in UserIds :
    /\ (HasSession(redis, u) /\ ValidForReuse(redis.user[u].val)) =>
         /\ Assigned(u).l.status = 200
         /\ Assigned(u).l.body = redis.user[u].val
         /\ Assigned(u).st = redis
    /\ (~HasSession(redis, u) /\ Assigned(u).l.status = 200) =>
         /\ HasSession(Assigned(u).st, u)
         /\ Assigned(u).st.user[u].val = Assigned(u).l.body

\* A session whose backend has since been given another credential
C3_Witness ==
  \E u \in UserIds :
    /\ HasSession(redis, u)
    /\ redis.user[u].val.apiId \in DOMAIN redis.apiPool
    /\ redis.apiPool[redis.user[u].val.apiId].apiKey # redis.user[u].val.apiKey
    /\ Assigned(u).l.message = "reused"

(* ---------------------------------------------------------------------- *)
(* C4                                                                      *)
(* ---------------------------------------------------------------------- *)

\* C4: a new admission goes to the first backend, in registry iteration
\* order, that is enabled and below its capacity.
C4_FirstFit ==
  \A u \in UserIds :
    (~HasSession(redis, u) /\ Assigned(u).l.status = 200) =>
      LET b == Assigned(u).l.body.apiId
      IN /\ Eligible(redis, b)
         /\ \A e \in ApiIds : Position(e) < Position(b) => ~Eligible(redis, e)

\* The first backend is eligible and loaded, a later one is eligible and
\* empty, and the admission goes to the first.
C4_Witness ==
  \E u \in UserIds :
    /\ ~HasSession(redis, u)
    /\ Eligible(redis, "1") /\ ActiveCount(redis, "1") > 0
    /\ Eligible(redis, "2") /\ ActiveCount(redis, "2") = 0
    /\ Assigned(u).l.body.apiId = "1"

(* ---------------------------------------------------------------------- *)
(* C5                                                                      *)
(* ---------------------------------------------------------------------- *)

\* C5: a new admission fails with 503 exactly when no registered backend
\* is enabled and below its capacity, and the failure leaves the store as
\* it was.
C5_CapacityExhausted ==
  \A u \in UserIds :
    ~HasSession(redis, u) =>
      /\ Assigned(u).l.status = 503 <=> ~\E b \in ApiIds : Eligible(redis, b)
      /\ Assigned(u).l.status = 503 => Assigned(u).st = redis
      /\ Assigned(u).l.status \in {200, 503}

\* A full enabled backend beside a disabled one with room
C5_Witness ==
  \E u \in UserIds, b, d \in ApiIds :
    /\ ~HasSession(redis, u)
    /\ b \in DOMAIN redis.apiPool /\ redis.apiPool[b].enabled
    /\ ActiveCount(redis, b) >= redis.apiPool[b].maxSessions
    /\ d \in DOMAIN redis.apiPool /\ ~redis.apiPool[d].enabled
    /\ ActiveCount(redis, d) < redis.apiPool[d].maxSessions
    /\ Assigned(u).l.status = 503

(* ---------------------------------------------------------------------- *)
(* C6                                                                      *)
(* ---------------------------------------------------------------------- *)

\* C6: a successful new admission of u to b stores a session record for u
\* bound to b, raises activeCount(b) by exactly 1, adds u to activeUsers(b),
\* and changes no other backend's count or set and no closedCount.
C6_AdmissionEffect ==
  \A u \in UserIds :
    (~HasSession(redis, u) /\ Assigned(u).l.status = 200) =>
      LET b == Assigned(u).l.body.apiId
          after == Assigned(u).st
      IN /\ HasSession(after, u) /\ after.user[u].val.apiId = b
         /\ DOMAIN after.user = DOMAIN redis.user \cup {u}
         /\ \A v \in DOMAIN redis.user : after.user[v] = redis.user[v]
         /\ ActiveCount(after, b) = ActiveCount(redis, b) + 1
         /\ ActiveUsers(after, b) = ActiveUsers(redis, b) \cup {u}
         /\ \A o \in ApiIds \ {b} :
              /\ ActiveCount(after, o) = ActiveCount(redis, o)
              /\ ActiveUsers(after, o) = ActiveUsers(redis, o)
         /\ \A o \in ApiIds : ClosedCount(after, o) = ClosedCount(redis, o)

\* An admission to a backend that already holds another requester, while a
\* second backend is registered
C6_Witness ==
  \E u \in UserIds, b \in ApiIds :
    /\ ~HasSession(redis, u)
    /\ DOMAIN redis.apiPool = ApiIds
    /\ ActiveUsers(redis, b) # {}
    /\ Assigned(u).l.status = 200
    /\ Assigned(u).l.body.apiId = b

(* ---------------------------------------------------------------------- *)
(* C7                                                                      *)
(* ---------------------------------------------------------------------- *)

\* C7: end-session for a requester without a session record answers 200
\* and leaves every backend's activeCount, closedCount and active-user set
\* as they were.
C7_EndWithoutSession ==
  \A u \in UserIds :
    ~HasSession(redis, u) =>
      /\ Ended(u).l.status = 200
      /\ SameCounters(Ended(u).st, redis)
      /\ Ended(u).st.user = redis.user

\* The requester's session has expired: it is still counted and still a
\* member of the backend's set, and end-session finds no record.
C7_Witness ==
  \E u \in UserIds, b \in ApiIds :
    /\ ~HasSession(redis, u)
    /\ u \in ActiveUsers(redis, b)
    /\ ActiveCount(redis, b) > 0
    /\ Ended(u).l.message = "no_active_session"

(* ---------------------------------------------------------------------- *)
(* C8                                                                      *)
(* ---------------------------------------------------------------------- *)

\* C8: end-session for u with a valid session bound to b, run without
\* overlap, answers 200, deletes u's record, removes u from activeUsers(b),
\* lowers activeCount(b) by 1 when it was positive and leaves it at 0
\* otherwise, raises closedCount(b) by exactly 1, touches no other backend,
\* and puts one session_ended event naming u and b at the head of the log.
C8_EndEffect ==
  \A u \in UserIds :
    (HasSession(redis, u) /\ ValidForEnd(redis.user[u].val)) =>
      LET b == redis.user[u].val.apiId
          after == Ended(u).st
      IN /\ Ended(u).l.status = 200
         /\ DOMAIN after.user = DOMAIN redis.user \ {u}
         /\ \A v \in DOMAIN after.user : after.user[v] = redis.user[v]
         /\ ActiveUsers(after, b) = ActiveUsers(redis, b) \ {u}
         /\ ActiveCount(after, b) =
              IF ActiveCount(redis, b) > 0 THEN ActiveCount(redis, b) - 1 ELSE 0
         /\ ClosedCount(after, b) = ClosedCount(redis, b) + 1
         /\ \A o \in ApiIds \ {b} :
              /\ ActiveCount(after, o) = ActiveCount(redis, o)
              /\ ClosedCount(after, o) = ClosedCount(redis, o)
              /\ ActiveUsers(after, o) = ActiveUsers(redis, o)
         /\ after.sessionEventsLog =
              <<Event("session_ended", u, b, "")>> \o redis.sessionEventsLog

\* A session on a backend whose count is positive, ended while another
\* requester stays on the same backend
C8_Witness ==
  \E u \in UserIds :
    /\ HasSession(redis, u)
    /\ ActiveCount(redis, redis.user[u].val.apiId) = 2
    /\ ActiveUsers(redis, redis.user[u].val.apiId) = UserIds
    /\ Ended(u).l.message = "session_ended"
    /\ ActiveCount(Ended(u).st, redis.user[u].val.apiId) = 1

\* The other case of C8: a session whose backend's count reads 0 (the
\* backend was removed), which end-session leaves at 0
C8_ZeroCountReached ==
  \E u \in UserIds :
    /\ HasSession(redis, u)
    /\ ActiveCount(redis, redis.user[u].val.apiId) = 0
    /\ ActiveCount(Ended(u).st, redis.user[u].val.apiId) = 0

(* ---------------------------------------------------------------------- *)
(* C9                                                                      *)
(* ---------------------------------------------------------------------- *)

\* C9: in every reachable state, under any interleaving of overlapping
\* requests, no backend's activeCount is below zero.
C9_ActiveCountNotNegative == \A b \in ApiIds : ActiveCount(redis, b) >= 0

(* ---------------------------------------------------------------------- *)
(* C10                                                                     *)
(* ---------------------------------------------------------------------- *)

\* C10: end-all-sessions-for-api on a registered backend b, run without
\* overlap, answers 200 and leaves activeCount(b) = 0, activeUsers(b)
\* empty, no session record for any former member of activeUsers(b), and
\* closedCount(b) raised by the former size of activeUsers(b).
C10_EndAllEffect ==
  \A b \in DOMAIN redis.apiPool :
    LET after == EndedAll(b).st
    IN /\ EndedAll(b).l.status = 200
       /\ ActiveCount(after, b) = 0
       /\ ActiveUsers(after, b) = {}
       /\ \A u \in ActiveUsers(redis, b) : ~HasSession(after, u)
       /\ ClosedCount(after, b) = ClosedCount(redis, b) + Cardinality(ActiveUsers(redis, b))
       /\ EndedAll(b).l.cleared = Cardinality(ActiveUsers(redis, b))

\* A registered backend with two active requesters, both with a session
C10_Witness ==
  \E b \in DOMAIN redis.apiPool :
    /\ ActiveUsers(redis, b) = UserIds
    /\ DOMAIN redis.user = UserIds
    /\ ActiveCount(redis, b) = 2
    /\ EndedAll(b).st.user = EmptyMap

(* ---------------------------------------------------------------------- *)
(* C11                                                                     *)
(* ---------------------------------------------------------------------- *)

\* C11: a disabled backend is never selected by a new admission, whatever
\* its activeCount; disabling a backend keeps the sessions bound to it, and
\* reuse still answers with their binding; once re-enabled the backend is
\* selected again whenever its activeCount is below its capacity and no
\* earlier backend is eligible.
C11_DisabledNotSelected ==
  /\ \A u \in UserIds, b \in DOMAIN redis.apiPool :
       (~HasSession(redis, u) /\ redis.apiPool[b].enabled = FALSE) =>
         ~(Assigned(u).l.status = 200 /\ Assigned(u).l.body.apiId = b)
  /\ \A b \in DOMAIN redis.apiPool :
       LET off == Run(redis, ToggleReq(b, "false"))
           on  == Run(off.st, ToggleReq(b, "true"))
       IN /\ off.l.status = 200 /\ off.st.apiPool[b].enabled = FALSE
          /\ on.l.status = 200 /\ on.st.apiPool[b].enabled = TRUE
          /\ \A u \in UserIds :
               LET a == Run(off.st, AssignReq(u))
                   r == Run(on.st, AssignReq(u))
               IN /\ ~HasSession(redis, u) =>
                       ~(a.l.status = 200 /\ a.l.body.apiId = b)
                  /\ ( /\ HasSession(redis, u)
                       /\ ValidForReuse(redis.user[u].val)
                       /\ redis.user[u].val.apiId = b ) =>
                       /\ HasSession(off.st, u)
                       /\ off.st.user[u] = redis.user[u]
                       /\ a.l.status = 200
                       /\ a.l.body = redis.user[u].val
                  /\ ( /\ ~HasSession(redis, u)
                       /\ ActiveCount(redis, b) < redis.apiPool[b].maxSessions
                       /\ \A e \in ApiIds : Position(e) < Position(b) => ~Eligible(redis, e) ) =>
                       /\ r.l.status = 200
                       /\ r.l.body.apiId = b

\* A disabled backend with room holds one requester, who still gets the
\* binding, while a requester without a session is refused.
C11_Witness ==
  \E b \in DOMAIN redis.apiPool, u, v \in UserIds :
    /\ redis.apiPool[b].enabled = FALSE
    /\ ActiveCount(redis, b) > 0
    /\ ActiveCount(redis, b) < redis.apiPool[b].maxSessions
    /\ HasSession(redis, u) /\ redis.user[u].val.apiId = b
    /\ Assigned(u).l.message = "reused"
    /\ ~HasSession(redis, v)
    /\ Assigned(v).l.status = 503
    /\ Run(Run(redis, ToggleReq(b, "true")).st, AssignReq(v)).l.body.apiId = b

(* ---------------------------------------------------------------------- *)
(* C12                                                                     *)
(* ---------------------------------------------------------------------- *)

\* C12: remove-api on a registered backend deletes its registry entry, its
\* activeCount, its closedCount and its active-user set and leaves every
\* other backend and every session record as they were; a requester whose
\* session names the removed backend still gets that binding from
\* get-api-session.
C12_RemoveKeepsSessions ==
  \A b \in DOMAIN redis.apiPool :
    LET r == Run(redis, RemoveReq(b))
    IN /\ r.l.status = 200
       /\ DOMAIN r.st.apiPool = DOMAIN redis.apiPool \ {b}
       /\ b \notin DOMAIN r.st.sessions
       /\ b \notin DOMAIN r.st.closedSessions
       /\ ActiveUsers(r.st, b) = {}
       /\ \A o \in ApiIds \ {b} :
            /\ o \in DOMAIN redis.apiPool => r.st.apiPool[o] = redis.apiPool[o]
            /\ ActiveCount(r.st, o) = ActiveCount(redis, o)
            /\ ClosedCount(r.st, o) = ClosedCount(redis, o)
            /\ ActiveUsers(r.st, o) = ActiveUsers(redis, o)
       /\ r.st.user = redis.user
       /\ r.st.sessionEventsLog = redis.sessionEventsLog
       /\ \A u \in UserIds :
            ( /\ HasSession(redis, u)
              /\ ValidForReuse(redis.user[u].val)
              /\ redis.user[u].val.apiId = b ) =>
              LET a == Run(r.st, AssignReq(u))
              IN /\ a.l.status = 200
                 /\ a.l.body = redis.user[u].val
                 /\ a.st = r.st

\* A requester's session names a backend that has been removed, and
\* get-api-session still answers with it.
C12_Witness ==
  \E u \in UserIds :
    /\ HasSession(redis, u)
    /\ redis.user[u].val.apiId \notin DOMAIN redis.apiPool
    /\ redis.user[u].val.apiId \notin DOMAIN redis.sessions
    /\ Assigned(u).l.message = "reused"
    /\ Assigned(u).l.body.apiId = redis.user[u].val.apiId

(* ---------------------------------------------------------------------- *)
(* C13                                                                     *)
(* ---------------------------------------------------------------------- *)

\* Capacities a request may supply that are numbers but not positive
NonPositive == {-1, -2}

\* C13: an add-api or an update-api (of a registered backend) that supplies
\* a capacity that is not a positive number is answered 400 (invalid input)
\* and leaves the store as it was, and every descriptor in the registry has
\* maxSessions > 0.
C13_NonPositiveCapacityRejected ==
  /\ \A id \in ApiIds, max \in NonPositive :
       LET r == Run(redis, AddReq(id, "k1", "c1", max))
       IN r.l.status = 400 /\ r.l.message = "invalid_input" /\ r.st = redis
  /\ \A id \in DOMAIN redis.apiPool, key \in {"", "k2"}, max \in NonPositive :
       LET r == Run(redis, UpdateReq(id, key, "", max, "undefined"))
       IN r.l.status = 400 /\ r.l.message = "invalid_input" /\ r.st = redis
  /\ \A b \in DOMAIN redis.apiPool : redis.apiPool[b].maxSessions > 0

\* The parts of C13 that the handlers do keep: add-api rejects such a
\* capacity, and no descriptor ever has maxSessions <= 0.
C13_AddRejectsAndCapacityPositive ==
  /\ \A id \in ApiIds, max \in NonPositive :
       LET r == Run(redis, AddReq(id, "k1", "c1", max))
       IN r.l.status = 400 /\ r.l.message = "invalid_input" /\ r.st = redis
  /\ \A id \in DOMAIN redis.apiPool, key \in {"", "k2"}, max \in NonPositive :
       Run(redis, UpdateReq(id, key, "", max, "undefined")).st.apiPool[id].maxSessions
         = redis.apiPool[id].maxSessions
  /\ \A b \in DOMAIN redis.apiPool : redis.apiPool[b].maxSessions > 0

(* ---------------------------------------------------------------------- *)
(* C14                                                                     *)
(* ---------------------------------------------------------------------- *)

\* C14: add-api with an id that is already registered is answered 400
\* (already exists) and leaves the descriptor, the activeCount, the
\* closedCount and the active-user set of that id, and the rest of the
\* store, as they were.
C14_AddExistingConflict ==
  \A id \in DOMAIN redis.apiPool, key \in ApiKeys, ch \in CharacterIds, max \in Capacities :
    LET r == Run(redis, AddReq(id, key, ch, max))
    IN /\ r.l.status = 400
       /\ r.l.message = "already_exists"
       /\ r.st.apiPool[id] = redis.apiPool[id]
       /\ ActiveCount(r.st, id) = ActiveCount(redis, id)
       /\ ClosedCount(r.st, id) = ClosedCount(redis, id)
       /\ ActiveUsers(r.st, id) = ActiveUsers(redis, id)
       /\ r.st = redis

\* A registered backend with a session, a closed session and a descriptor
\* other than the one the request carries
C14_Witness ==
  \E id \in DOMAIN redis.apiPool :
    /\ ActiveCount(redis, id) > 0
    /\ ClosedCount(redis, id) > 0
    /\ ActiveUsers(redis, id) # {}
    /\ redis.apiPool[id].maxSessions # 1
    /\ Run(redis, AddReq(id, "k1", "c1", 1)).l.message = "already_exists"

(* ---------------------------------------------------------------------- *)
(* C15                                                                     *)
(* ---------------------------------------------------------------------- *)

C16_UpdateMergesSupplied ==
  \A id \in DOMAIN redis.apiPool, key \in {"", "k2"}, ch \in {"", "c2"},
     max \in {0} \cup Capacities \cup NonPositive, en \in {"undefined", "true", "false"} :
    LET r == Run(redis, UpdateReq(id, key, ch, max, en))
        old == redis.apiPool[id]
        new == r.st.apiPool[id]
    IN /\ r.l.status = 200
       /\ new.apiKey = (IF key = "" THEN old.apiKey ELSE key)
       /\ new.characterId = (IF ch = "" THEN old.characterId ELSE ch)
       /\ new.maxSessions = (IF max > 0 THEN max ELSE old.maxSessions)
       /\ new.enabled = (IF en = "undefined" THEN old.enabled ELSE en = "true")
       /\ r.st = [redis EXCEPT !.apiPool[id] = new]

\* A disabled backend with a session gets a new credential and nothing
\* else: it stays disabled with the capacity it had.
C16_Witness ==
  \E id \in DOMAIN redis.apiPool :
    /\ redis.apiPool[id].enabled = FALSE
    /\ redis.apiPool[id].apiKey = "k1"
    /\ ActiveCount(redis, id) > 0
    /\ Run(redis, UpdateReq(id, "k2", "", 0, "undefined")).st.apiPool[id]
         = [redis.apiPool[id] EXCEPT !.apiKey = "k2"]

(* ---------------------------------------------------------------------- *)
(* C17                                                                     *)
(* ---------------------------------------------------------------------- *)

\* C17: toggle-api-status on a registered backend is answered 200 and
\* changes the enabled flag of its descriptor and nothing else: its
\* apiKey, characterId and maxSessions, the other descriptors, all
\* counters, all active-user sets, all session records and the audit log
\* are as before.
C17_ToggleOnlyEnabled ==
  \A id \in DOMAIN redis.apiPool, en \in {"true", "false"} :
    LET r == Run(redis, ToggleReq(id, en))
    IN /\ r.l.status = 200
       /\ r.st.apiPool[id] = [redis.apiPool[id] EXCEPT !.enabled = (en = "true")]
       /\ r.st = [redis EXCEPT !.apiPool[id].enabled = (en = "true")]

\* An enabled backend with a session and an updated credential is disabled.
C17_Witness ==
  \E id \in DOMAIN redis.apiPool :
    /\ redis.apiPool[id].enabled = TRUE
    /\ redis.apiPool[id].apiKey = "k2"
    /\ ActiveCount(redis, id) > 0
    /\ ActiveUsers(redis, id) # {}
    /\ Run(redis, ToggleReq(id, "false")).st.apiPool[id].enabled = FALSE
    /\ Run(redis, ToggleReq(id, "false")).st.apiPool[id].apiKey = "k2"

(* ---------------------------------------------------------------------- *)
(* C18                                                                     *)
(* ---------------------------------------------------------------------- *)

\* C18: update-api, toggle-api-status, remove-api and
\* end-all-sessions-for-api with an id that is not in the registry (and an
\* otherwise valid body) are each answered 404 and leave the whole store,
\* audit log included, as it was.
C18_UnknownIdNotFound ==
  \A id \in ApiIds \ DOMAIN redis.apiPool :
    /\ \A key \in {"", "k2"}, max \in {0} \cup Capacities, en \in {"undefined", "true", "false"} :
         LET r == Run(redis, UpdateReq(id, key, "", max, en))
         IN r.l.status = 404 /\ r.st = redis
    /\ \A en \in {"true", "false"} :
         LET r == Run(redis, ToggleReq(id, en))
         IN r.l.status = 404 /\ r.st = redis
    /\ LET r == Run(redis, RemoveReq(id))
       IN r.l.status = 404 /\ r.st = redis
    /\ LET r == Run(redis, EndAllReq(id))
       IN r.l.status = 404 /\ r.st = redis

\* An id that was removed while a requester's session names it: the four
\* requests find no such backend.
C18_Witness ==
  \E id \in ApiIds \ DOMAIN redis.apiPool, u \in UserIds :
    /\ HasSession(redis, u)
    /\ redis.user[u].val.apiId = id
    /\ Run(redis, UpdateReq(id, "k2", "", 1, "undefined")).l.message = "not_found"
    /\ Run(redis, ToggleReq(id, "true")).l.message = "not_found"
    /\ Run(redis, RemoveReq(id)).l.message = "not_found"
    /\ Run(redis, EndAllReq(id)).l.message = "not_found"

(* ---------------------------------------------------------------------- *)
(* C19                                                                     *)
(* ---------------------------------------------------------------------- *)

\* The first n events of a log
Newest(log, n) == SubSeq(log, 1, IF Len(log) < n THEN Len(log) ELSE n)

\* C19: the audit log never holds more than 100 events and a read returns
\* all of it; every recorded event goes to the front of the log, ahead of
\* the events recorded before it, of which the oldest is dropped when the
\* log would exceed 100; and a read right after a clear returns the empty
\* sequence.
C19_LogNewestFirstBounded ==
  /\ Len(redis.sessionEventsLog) <= LOG_KEEP
  /\ LET r == Run(redis, Req("get-session-events"))
     IN /\ r.l.status = 200
        /\ Len(r.l.events) <= 100
        /\ r.l.events = redis.sessionEventsLog
        /\ r.st = redis
  /\ \A u \in UserIds :
       LET new == Ended(u).st.sessionEventsLog
       IN /\ new # <<>>
          /\ Head(new).userId = u
          /\ Head(new).type = (IF HasSession(redis, u) THEN "session_ended"
                               ELSE "session_end_no_op")
          /\ new = Newest(<<Head(new)>> \o redis.sessionEventsLog, 100)
          /\ Run(Ended(u).st, Req("get-session-events")).l.events = new
  /\ \A b \in DOMAIN redis.apiPool :
       LET new == EndedAll(b).st.sessionEventsLog
       IN /\ new # <<>>
          /\ Head(new).type = "bulk_session_ended"
          /\ Head(new).apiId = b
          /\ new = Newest(<<Head(new)>> \o redis.sessionEventsLog, 100)
  /\ LET c == Run(redis, Req("delete-session-events"))
     IN /\ c.l.status = 200
        /\ Run(c.st, Req("get-session-events")).l.events = <<>>

\* The log is full, its newest event was recorded by an end-session that
\* ended a session, and one more event pushes out the oldest.
C19_Witness ==
  \E u \in UserIds :
    /\ Len(redis.sessionEventsLog) = LOG_KEEP
    /\ Head(redis.sessionEventsLog).type = "session_ended"
    /\ redis.sessionEventsLog[LOG_KEEP] # redis.sessionEventsLog[LOG_KEEP - 1]
    /\ Len(Ended(u).st.sessionEventsLog) = LOG_KEEP
    /\ Ended(u).st.sessionEventsLog[LOG_KEEP] = redis.sessionEventsLog[LOG_KEEP - 1]
    /\ Ended(u).st.sessionEventsLog[2] = Head(redis.sessionEventsLog)

\* A read right after a clear of a log that held events
C19_ClearedReached ==
  /\ redis.sessionEventsLog = <<>>
  /\ admin > 0
  /\ Run(redis, Req("get-session-events")).l.events = <<>>

(* ---------------------------------------------------------------------- *)
(* C20                                                                     *)
(* ---------------------------------------------------------------------- *)

\* Two get-api-session handlers, for different requesters, that have both
\* passed the capacity test of getAvailableAPI for backend b and have not
\* yet written anything
BothPassedTest(p, q, b) ==
  /\ p # q
  /\ proc[p].pc = "assign_set" /\ proc[q].pc = "assign_set"
  /\ proc[p].target = b /\ proc[q].target = b
  /\ proc[p].userId # proc[q].userId

\* C20: nothing after the capacity test holds an admission back: whenever
\* two overlapping get-api-session handlers for different requesters have
\* both read activeCount < capacity for the same backend, both are admitted
\* to it and its activeCount rises by 2, which exceeds the capacity when
\* only one slot was free.
C20_AdmissionRace ==
  \A p, q \in Procs, b \in ApiIds :
    BothPassedTest(p, q, b) =>
      LET first == Run(redis, proc[p])
          second == Run(first.st, proc[q])
      IN /\ first.l.status = 200 /\ first.l.body.apiId = b
         /\ second.l.status = 200 /\ second.l.body.apiId = b
         /\ ActiveCount(second.st, b) = ActiveCount(redis, b) + 2
         /\ ActiveUsers(second.st, b) =
              ActiveUsers(redis, b) \cup {proc[p].userId, proc[q].userId}
         /\ ActiveCount(redis, b) + 1 >= proc[p].pool[b].maxSessions =>
              ActiveCount(second.st, b) > proc[p].pool[b].maxSessions

\* Both handlers have answered with the same backend, both requesters hold
\* a session on it, and its activeCount is above its capacity.
C20_Witness ==
  \E b \in DOMAIN redis.apiPool :
    /\ proc["p1"].message = "assigned" /\ proc["p2"].message = "assigned"
    /\ proc["p1"].body.apiId = b /\ proc["p2"].body.apiId = b
    /\ proc["p1"].userId # proc["p2"].userId
    /\ HasSession(redis, proc["p1"].userId) /\ HasSession(redis, proc["p2"].userId)
    /\ ActiveUsers(redis, b) = {proc["p1"].userId, proc["p2"].userId}
    /\ ActiveCount(redis, b) = 2
    /\ redis.apiPool[b].maxSessions = 1

(* ---------------------------------------------------------------------- *)
(* C21                                                                     *)
(* ---------------------------------------------------------------------- *)

\* No handler is between two store commands.
Quiescent == \A p \in Procs : ~InFlight(p)

RECURSIVE SumCounts(_, _)
\* The sum of the activeCount of the backends in S
SumCounts(st, S) ==
  IF S = {} THEN 0
  ELSE LET b == CHOOSE x \in S : TRUE
       IN ActiveCount(st, b) + SumCounts(st, S \ {b})

\* C21: get-api-session calls, all admitted with nothing ended or expired
\* and interleaved in any way, never double-assign a requester: once they
\* have all completed every requester is in at most one backend's
\* active-user set, and the activeCounts add up to no more than one per
\* requester that holds a session.
C21_NoDoubleAssign ==
  Quiescent =>
    /\ \A u \in UserIds : Cardinality({b \in ApiIds : u \in ActiveUsers(redis, b)}) <= 1
    /\ SumCounts(redis, ApiIds) <= Cardinality(DOMAIN redis.user)


(* ---------------------------------------------------------------------- *)
(* C22                                                                     *)
(* ---------------------------------------------------------------------- *)

RECURSIVE Interleavings(_, _, _)
\* Every outcome of two handlers run to their responses with their store
\* commands interleaved in any order
Interleavings(st, l1, l2) ==
  IF l1.pc = "done" /\ l2.pc = "done" THEN {[st |-> st, l1 |-> l1, l2 |-> l2]}
  ELSE (IF l1.pc = "done" THEN {}
        ELSE LET o == Step(st, l1) IN Interleavings(o.st, o.l, l2))
       \cup
       (IF l2.pc = "done" THEN {}
        ELSE LET o == Step(st, l2) IN Interleavings(o.st, l1, o.l))

\* C22: two end-session calls for one requester that holds one live
\* session, interleaved in any way, both answer 200 and together lower the
\* backend's activeCount by exactly one and raise its closedCount by
\* exactly one.
C22_DoubleEndCountsOnce ==
  \A u \in UserIds :
    (/\ \A p \in Procs : proc[p] = EndReq(u)
     /\ HasSession(redis, u)
     /\ ValidForEnd(redis.user[u].val)
     /\ ActiveCount(redis, redis.user[u].val.apiId) > 0)
    => LET b == redis.user[u].val.apiId
       IN \A r \in Interleavings(redis, EndReq(u), EndReq(u)) :
            /\ r.l1.status = 200
            /\ r.l2.status = 200
            /\ ActiveCount(r.st, b) = ActiveCount(redis, b) - 1
            /\ ClosedCount(r.st, b) = ClosedCount(redis, b) + 1


(* ---------------------------------------------------------------------- *)
(* C23                                                                     *)
(* ---------------------------------------------------------------------- *)

\* C23: when requests do not overlap, no session expires and no backend
\* is removed or has its capacity lowered, then after every completed
\* operation every registered backend has activeCount equal to the size of
\* its active-user set and at most its capacity.
C23_CountMatchesUsers ==
  \A b \in DOMAIN redis.apiPool :
    /\ ActiveCount(redis, b) = Cardinality(ActiveUsers(redis, b))
    /\ ActiveCount(redis, b) <= redis.apiPool[b].maxSessions

\* A backend filled to its capacity after a session has been ended
C23_Witness ==
  \E b \in DOMAIN redis.apiPool :
    /\ ActiveCount(redis, b) = redis.apiPool[b].maxSessions
    /\ ActiveUsers(redis, b) # {}
    /\ ClosedCount(redis, b) > 0


(* ---------------------------------------------------------------------- *)
(* C24                                                                     *)
(* ---------------------------------------------------------------------- *)

\* C24: the passing of time removes session records whose TTL has run out
\* and nothing else: the registry, every activeCount, closedCount and
\* active-user set, the audit log and the content of the other session
\* records stay as they were, so the count of an expired session's backend
\* stays stale.
C24_ExpiryDropsOnlySession ==
  \A d \in {SESSION_TTL \div 2, SESSION_TTL} :
    LET after == Expired(redis, d)
    IN /\ SameCounters(after, redis)
       /\ after.sessions = redis.sessions
       /\ after.closedSessions = redis.closedSessions
       /\ after.apiPool = redis.apiPool
       /\ after.sessionEventsLog = redis.sessionEventsLog
       /\ \A u \in DOMAIN redis.user :
            IF redis.user[u].ttl <= d THEN ~HasSession(after, u)
            ELSE HasSession(after, u) /\ after.user[u].val = redis.user[u].val
       /\ DOMAIN after.user \subseteq DOMAIN redis.user

\* One requester's session has expired and is still counted by its
\* backend, while another requester's younger session is still there.
C24_Witness ==
  \E u, v \in UserIds, b \in DOMAIN redis.apiPool :
    /\ ~HasSession(redis, u)
    /\ u \in ActiveUsers(redis, b)
    /\ HasSession(redis, v)
    /\ redis.user[v].ttl < SESSION_TTL
    /\ ActiveUsers(redis, b) = {u, v}
    /\ ActiveCount(redis, b) = 2


(* ---------------------------------------------------------------------- *)
(* C25                                                                     *)
(* ---------------------------------------------------------------------- *)

\* The requesters that hold a session record bound to backend b
LiveOn(st, b) == {v \in DOMAIN st.user : st.user[v].val.apiId = b}

\* The session of u bound to b is gone and b still counts it.
ExpiredOn(st, u, b) == ~HasSession(st, u) /\ u \in ActiveUsers(st, b)

\* C25 as stated: after a session bound to b has expired, end-session for
\* that requester brings activeCount(b) and the active-user set of b back
\* to the number and the set of the requesters that still hold a session
\* on b.
C25_EndReconcilesExpired ==
  \A u \in UserIds, b \in DOMAIN redis.apiPool :
    ExpiredOn(redis, u, b) =>
      /\ ActiveUsers(Ended(u).st, b) = LiveOn(Ended(u).st, b)
      /\ ActiveCount(Ended(u).st, b) = Cardinality(LiveOn(Ended(u).st, b))

\* C25, amended: after a session bound to b has expired, end-session for
\* that requester answers 200 and reconciles nothing: activeCount(b) and
\* the active-user set of b, the expired requester included, stay as they
\* were; end-all-sessions-for-api for b sets activeCount(b) to 0 and
\* empties the set.
C25_EndLeavesExpiredStale ==
  \A u \in UserIds, b \in DOMAIN redis.apiPool :
    ExpiredOn(redis, u, b) =>
      /\ Ended(u).l.status = 200
      /\ ActiveCount(Ended(u).st, b) = ActiveCount(redis, b)
      /\ ActiveUsers(Ended(u).st, b) = ActiveUsers(redis, b)
      /\ ActiveCount(EndedAll(b).st, b) = 0
      /\ ActiveUsers(EndedAll(b).st, b) = {}

\* A backend counts two sessions of which one has expired, and end-session
\* for the expired one leaves the count above the number of live sessions.
C25_Witness ==
  \E u \in UserIds, b \in DOMAIN redis.apiPool :
    /\ ExpiredOn(redis, u, b)
    /\ LiveOn(redis, b) # {}
    /\ ActiveCount(Ended(u).st, b) > Cardinality(LiveOn(Ended(u).st, b))
    /\ u \in ActiveUsers(Ended(u).st, b)


(* ---------------------------------------------------------------------- *)
(* C26                                                                     *)
(* ---------------------------------------------------------------------- *)

\* C26: the closedCount of a backend never decreases across a step in
\* which the backend stays registered; it goes back to zero only with the
\* backend's removal (and a later fresh add).
C26_ClosedCountNeverDecreases ==
  [][\A b \in ApiIds :
       (b \in DOMAIN redis.apiPool /\ b \in DOMAIN redis'.apiPool)
         => ClosedCount(redis', b) >= ClosedCount(redis, b)]_vars

\* A registered backend has closed two sessions, the second on top of the
\* first.
C26_Witness ==
  \E b \in DOMAIN redis.apiPool : ClosedCount(redis, b) >= 2 /\ ActiveCount(redis, b) = 0


(* ---------------------------------------------------------------------- *)
(* C27                                                                     *)
(* ---------------------------------------------------------------------- *)

\* C27: a session's expiry is fixed when it is created, SESSION_TTL (15
\* minutes) later, and is never extended: get-api-session on an existing
\* session leaves the time it has left as it was, so the session is gone
\* once that time has passed.
C27_ExpiryFixedAtCreation ==
  \A u \in UserIds :
    LET r == Assigned(u)
    IN IF HasSession(redis, u)
       THEN /\ HasSession(r.st, u)
            /\ r.st.user[u].ttl = redis.user[u].ttl
            /\ ~HasSession(Expired(r.st, redis.user[u].ttl), u)
       ELSE r.l.status = 200 =>
              /\ r.st.user[u].ttl = SESSION_TTL
              /\ ~HasSession(Expired(r.st, SESSION_TTL), u)

\* A session half-way through its TTL is reused.
C27_Witness ==
  \E u \in UserIds :
    /\ HasSession(redis, u)
    /\ redis.user[u].ttl = SESSION_TTL \div 2
    /\ Assigned(u).l.message = "reused"


(* ---------------------------------------------------------------------- *)
(* C28                                                                     *)
(* ---------------------------------------------------------------------- *)

\* The registry changes a request can ask for on backend b
RegistryChanges(b) ==
  {UpdateReq(b, key, "", max, "undefined") : key \in {"", "k2"}, max \in Capacities \cup {0}}
    \cup {ToggleReq(b, en) : en \in {"true", "false"}}
    \cup {RemoveReq(b)}

\* No update, toggle or removal of a backend changes a session record.
RegistryChangesKeepSessions ==
  \A b \in ApiIds : \A req \in RegistryChanges(b) : Run(redis, req).st.user = redis.user

\* C28 as stated: when a session record is created (the SET of
\* get-api-session) the backend it names is registered, enabled and has
\* activeCount < capacity, and no later update, disable or removal of a
\* backend deletes or rewrites a session record.
C28_CreatedOnEligibleBackend ==
  /\ \A p \in Procs : proc[p].pc = "assign_set" => Eligible(redis, proc[p].target)
  /\ RegistryChangesKeepSessions

\* C28, amended: the backend a session record names was registered and
\* enabled in the registry the admission read and had activeCount <
\* capacity when the admission read its counter (by the time the record is
\* written an overlapping admission may have filled the backend), and no
\* later update, disable or removal of a backend deletes or rewrites a
\* session record.
C28_EligibleWhenScanned ==
  /\ \A p \in Procs :
       (proc[p].pc = "scan_get" /\ Step(redis, proc[p]).l.pc = "assign_set")
         => LET b == Step(redis, proc[p]).l.target
            IN /\ b \in DOMAIN proc[p].pool
               /\ proc[p].pool[b].enabled
               /\ ActiveCount(redis, b) < proc[p].pool[b].maxSessions
               /\ Run(redis, proc[p]).st.user[proc[p].userId].val.apiId = b
  /\ RegistryChangesKeepSessions

\* A handler is about to write a session record for a backend that an
\* overlapping admission has filled since this handler read its counter.
C28_Witness ==
  \E p \in Procs :
    /\ proc[p].pc = "assign_set"
    /\ ActiveCount(redis, proc[p].target) >= redis.apiPool[proc[p].target].maxSessions
    /\ \E u \in DOMAIN redis.user : redis.user[u].val.apiId = proc[p].target
    /\ \E req \in RegistryChanges(proc[p].target) : Run(redis, req).l.status = 200

(* ---------------------------------------------------------------------- *)
(* C29                                                                     *)
(* ---------------------------------------------------------------------- *)

\* The largest number of get-api-session handlers in flight at one time
MaxOverlap == Cardinality(Procs)

\* C29: with no expiry, no removal and no update lowering a capacity, and
\* at most MaxOverlap get-api-session calls in flight at any time, the
\* activeCount of a backend never exceeds its capacity by more than
\* MaxOverlap - 1.
C29_OvershootBounded ==
  \A b \in DOMAIN redis.apiPool :
    ActiveCount(redis, b) <= redis.apiPool[b].maxSessions + MaxOverlap - 1

\* A backend of capacity 2 counts 3 sessions: the bound is met.
C29_Witness ==
  \E b \in DOMAIN redis.apiPool :
    /\ redis.apiPool[b].maxSessions = 2
    /\ ActiveCount(redis, b) = redis.apiPool[b].maxSessions + MaxOverlap - 1
    /\ \E p \in Procs : proc[p].message = "assigned"


(* ---------------------------------------------------------------------- *)
(* C30                                                                     *)
(* ---------------------------------------------------------------------- *)

\* C30: end-all-sessions-for-api on a registered backend whose active-user
\* set is empty still sets the backend's activeCount to 0, also when it had
\* drifted above 0, leaves its closedCount unchanged, deletes no session
\* record and answers 200 with 0 sessions cleared.
C30_EndAllOnEmptySet ==
  \A b \in DOMAIN redis.apiPool :
    ActiveUsers(redis, b) = {} =>
      LET r == EndedAll(b)
      IN /\ r.l.status = 200
         /\ r.l.cleared = 0
         /\ ActiveCount(r.st, b) = 0
         /\ b \in DOMAIN r.st.sessions
         /\ ClosedCount(r.st, b) = ClosedCount(redis, b)
         /\ r.st.user = redis.user
         /\ ActiveUsers(r.st, b) = {}

\* The counter of a backend has drifted: its active-user set is empty and
\* it still counts a session, which the bulk end resets.
C30_Witness ==
  \E b \in DOMAIN redis.apiPool :
    /\ ActiveUsers(redis, b) = {}
    /\ ActiveCount(redis, b) > 0
    /\ ActiveCount(EndedAll(b).st, b) = 0
    /\ EndedAll(b).l.message = "all_sessions_ended"

\* A session record is bound to a backend whose active-user set is empty.
C30_RecordKeptReached ==
  \E b \in DOMAIN redis.apiPool, u \in DOMAIN redis.user :
    /\ ActiveUsers(redis, b) = {}
    /\ redis.user[u].val.apiId = b


(* ---------------------------------------------------------------------- *)
(* C31                                                                     *)
(* ---------------------------------------------------------------------- *)

\* The store without the session record of u
Without(st, u) == [st EXCEPT !.user = Del(@, u)]

\* C31: get-api-session for a requester whose stored session record fails
\* the structural check deletes the record and then does what an admission
\* of a requester without a session does: the first eligible backend gets
\* a new record, activeCount + 1 and the requester in its user set, or the
\* answer is 503 when no backend is eligible.
C31_CorruptThenFreshAdmission ==
  \A u \in UserIds :
    (HasSession(redis, u) /\ ~ValidForReuse(redis.user[u].val)) =>
      LET r == Assigned(u)
          fresh == Run(Without(redis, u), AssignReq(u))
      IN /\ r.st = fresh.st
         /\ r.l.status = fresh.l.status
         /\ r.l.body = fresh.l.body
         /\ r.l.status = 503 <=> ~\E b \in ApiIds : Eligible(redis, b)
         /\ r.l.status = 503 => r.st = Without(redis, u)
         /\ r.l.status \in {200, 503}
         /\ r.l.status = 200 =>
              LET b == r.l.body.apiId
              IN /\ Eligible(redis, b)
                 /\ \A e \in ApiIds : Position(e) < Position(b) => ~Eligible(redis, e)
                 /\ ValidForReuse(r.st.user[u].val)
                 /\ r.st.user[u].val = r.l.body
                 /\ ActiveCount(r.st, b) = ActiveCount(redis, b) + 1
                 /\ ActiveUsers(r.st, b) = ActiveUsers(redis, b) \cup {u}

\* A malformed record is replaced by a new session on a backend that
\* already counted the requester.
C31_Witness ==
  \E u \in UserIds, b \in DOMAIN redis.apiPool :
    /\ HasSession(redis, u)
    /\ ~ValidForReuse(redis.user[u].val)
    /\ u \in ActiveUsers(redis, b)
    /\ Assigned(u).l.message = "assigned"
    /\ Assigned(u).l.body.apiId = b
    /\ ActiveCount(Assigned(u).st, b) = 2

\* A malformed record is found while no backend is eligible.
C31_ExhaustedReached ==
  \E u \in UserIds :
    /\ HasSession(redis, u)
    /\ ~ValidForReuse(redis.user[u].val)
    /\ Assigned(u).l.status = 503
    /\ ~HasSession(Assigned(u).st, u)


(* ---------------------------------------------------------------------- *)
(* C32                                                                     *)
(* ---------------------------------------------------------------------- *)

\* C32: end-session for a requester whose stored session record fails the
\* structural check deletes that record, answers 500 (internal error) and
\* changes no backend's activeCount, closedCount or active-user set.
C32_CorruptEndDeletesAndFails ==
  \A u \in UserIds :
    (HasSession(redis, u) /\ ~ValidForEnd(redis.user[u].val)) =>
      LET r == Ended(u)
      IN /\ r.l.status = 500
         /\ r.st.user = Without(redis, u).user
         /\ SameCounters(r.st, redis)
         /\ r.st.apiPool = redis.apiPool
         /\ r.st.sessionEventsLog =
              <<Event("session_end_corrupt", u, "unknown", "Corrupt session data cleared.")>>
                \o redis.sessionEventsLog

\* A record without a backend id is ended while a backend still counts
\* its requester, and the backend goes on counting it.
C32_Witness ==
  \E u \in UserIds, b \in DOMAIN redis.apiPool :
    /\ HasSession(redis, u)
    /\ ~ValidForEnd(redis.user[u].val)
    /\ u \in ActiveUsers(redis, b)
    /\ Ended(u).l.message = "corrupt_session"
    /\ u \in ActiveUsers(Ended(u).st, b)
    /\ ActiveCount(Ended(u).st, b) = 1


(* ---------------------------------------------------------------------- *)
(* C33                                                                     *)
(* ---------------------------------------------------------------------- *)

\* The audit log after one more event ev
Appended(log, ev) == Newest(<<ev>> \o log, LOG_KEEP)

\* Every successful end-session puts its event at the head of the audit
\* log, and every successful end-all-sessions-for-api a bulk_session_ended
\* event that carries the number of sessions cleared.
TerminationsLogged ==
  /\ \A u \in UserIds :
       Ended(u).l.status = 200 =>
         LET ev == IF HasSession(redis, u)
                   THEN Event("session_ended", u, redis.user[u].val.apiId, "")
                   ELSE Event("session_end_no_op", u, "unknown", "No active session found.")
         IN Ended(u).st.sessionEventsLog = Appended(redis.sessionEventsLog, ev)
  /\ \A b \in ApiIds :
       EndedAll(b).l.status = 200 =>
         EndedAll(b).st.sessionEventsLog =
           Appended(redis.sessionEventsLog,
                    Event("bulk_session_ended", "N/A", b,
                          "Cleared " \o ToString(Cardinality(ActiveUsers(redis, b)))
                            \o " sessions."))

\* C33 as stated: every successful new admission, every successful
\* end-session and every successful end-all-sessions-for-api appends an
\* audit event, the bulk one carrying the number of sessions cleared.
C33_AdmissionsAndTerminationsLogged ==
  /\ \A u \in UserIds :
       (~HasSession(redis, u) /\ Assigned(u).l.status = 200) =>
         LET new == Assigned(u).st.sessionEventsLog
         IN /\ new # <<>>
            /\ Head(new).userId = u
            /\ new = Appended(redis.sessionEventsLog, Head(new))
  /\ TerminationsLogged

\* C33, amended: only terminations emit to the audit log.  Every
\* successful end-session and every successful end-all-sessions-for-api
\* appends an audit event, the bulk one carrying the number of sessions
\* cleared; get-api-session, whether it admits, reuses or fails, leaves
\* the audit log as it was.
C33_OnlyTerminationsLogged ==
  /\ \A u \in UserIds : Assigned(u).st.sessionEventsLog = redis.sessionEventsLog
  /\ TerminationsLogged

\* An admission has just succeeded for a requester without a session and
\* the log holds no event naming it; ending that session then logs one.
C33_Witness ==
  \E u \in UserIds :
    /\ HasSession(redis, u)
    /\ \A i \in 1..Len(redis.sessionEventsLog) : redis.sessionEventsLog[i].userId # u
    /\ Ended(u).l.message = "session_ended"
    /\ Head(Ended(u).st.sessionEventsLog).userId = u
    /\ \E v \in UserIds : ~HasSession(redis, v) /\ Assigned(v).l.message = "assigned"


(* ---------------------------------------------------------------------- *)
(* C34                                                                     *)
(* ---------------------------------------------------------------------- *)

\* The counter of b does not under-count: the requesters with a live
\* session record bound to b are in its active-user set, the set is no
\* larger than activeCount(b), and activeCount(b) is at most the capacity.
NotUnderCounted(st, b) ==
  /\ LiveOn(st, b) \subseteq ActiveUsers(st, b)
  /\ Cardinality(ActiveUsers(st, b)) <= ActiveCount(st, b)
  /\ ActiveCount(st, b) <= st.apiPool[b].maxSessions

\* C34 as stated: when requests do not overlap (sessions may expire) and
\* no capacity is lowered, every registered backend (one that has stayed
\* registered since its last add) has no more live session records bound
\* to it than members of its active-user set, no more members than
\* activeCount, and no more live sessions than its capacity.
C34_NeverUnderCounts ==
  \A b \in DOMAIN redis.apiPool :
    /\ Cardinality(LiveOn(redis, b)) <= Cardinality(ActiveUsers(redis, b))
    /\ Cardinality(ActiveUsers(redis, b)) <= ActiveCount(redis, b)
    /\ Cardinality(LiveOn(redis, b)) <= redis.apiPool[b].maxSessions

\* C34, amended: when requests do not overlap (sessions may expire) and no
\* capacity is lowered, the same holds for every backend that had no live
\* session record bound to it when it was last added: it holds in the
\* seeded store, an add-api of a backend to which no live record is bound
\* establishes it, and every step that keeps the backend registered
\* preserves it.
C34_NeverUnderCountsSinceCleanAdd ==
  /\ \A b \in DOMAIN redis.apiPool : NotUnderCounted(redis, b)
  /\ [][\A b \in ApiIds :
          /\ (b \in DOMAIN redis.apiPool /\ b \in DOMAIN redis'.apiPool
                /\ NotUnderCounted(redis, b)) => NotUnderCounted(redis', b)
          /\ (b \notin DOMAIN redis.apiPool /\ b \in DOMAIN redis'.apiPool
                /\ LiveOn(redis, b) = {}) => NotUnderCounted(redis', b)]_vars

\* A backend added while no record was bound to it counts more sessions
\* than its active-user set has members, and the set has more members
\* than live sessions.
C34_Witness ==
  \E b \in DOMAIN redis.apiPool :
    /\ NotUnderCounted(redis, b)
    /\ LiveOn(redis, b) # {}
    /\ Cardinality(LiveOn(redis, b)) < Cardinality(ActiveUsers(redis, b))
    /\ Cardinality(ActiveUsers(redis, b)) < ActiveCount(redis, b)


(* ---------------------------------------------------------------------- *)
(* C35                                                                     *)
(* ---------------------------------------------------------------------- *)

\* Backend b is registered, no live session record is bound to it, and its
\* activeCount is at (or above) its capacity.
StaleFull(st, b) ==
  /\ b \in DOMAIN st.apiPool
  /\ LiveOn(st, b) = {}
  /\ ActiveCount(st, b) >= st.apiPool[b].maxSessions

\* C35: once every session bound to a backend b has expired while
\* activeCount(b) is at the capacity, an admission of a requester without
\* a session never selects b, and answers 503 when b is the only backend;
\* b stays that way across every step other than an
\* end-all-sessions-for-api for b, a removal of b, or an update that raises
\* b's capacity.
C35_StaleFullBackendStaysClosed ==
  /\ [](\A b \in ApiIds :
          StaleFull(redis, b) =>
            \A u \in UserIds :
              ~HasSession(redis, u) =>
                /\ Assigned(u).l.status = 200 => Assigned(u).l.body.apiId # b
                /\ DOMAIN redis.apiPool = {b} => Assigned(u).l.status = 503)
  /\ [][\A b \in ApiIds :
          (StaleFull(redis, b) /\ ~StaleFull(redis', b)) =>
            \/ redis' = EndedAll(b).st
            \/ b \notin DOMAIN redis'.apiPool
            \/ redis'.apiPool[b].maxSessions > redis.apiPool[b].maxSessions]_vars

\* The only backend is enabled and counts as many sessions as its
\* capacity, all of them expired: a new requester gets 503, and the bulk
\* end opens the backend again.
C35_Witness ==
  \E b \in ApiIds :
    /\ StaleFull(redis, b)
    /\ DOMAIN redis.apiPool = {b}
    /\ redis.apiPool[b].enabled
    /\ ActiveCount(redis, b) = redis.apiPool[b].maxSessions
    /\ ActiveUsers(redis, b) # {}
    /\ redis.user = EmptyMap
    /\ Assigned("u2").l.status = 503
    /\ Eligible(EndedAll(b).st, b)


(* ---------------------------------------------------------------------- *)
(* C36                                                                     *)
(* ---------------------------------------------------------------------- *)

\* Two requests have arrived and neither handler has issued a command.
BothArrived(r1, r2) == \E p, q \in Procs : p # q /\ proc[p] = r1 /\ proc[q] = r2

\* C36: when end-all-sessions-for-api for b overlaps a get-api-session
\* that admits a requester to b, then after both have answered the
\* requester either has no session record, or has one bound to b, is in
\* b's active-user set and is counted (activeCount(b) >= 1).
C36_EndAllOverlappingAssign ==
  \A u \in UserIds, b \in DOMAIN redis.apiPool :
    (BothArrived(AssignReq(u), EndAllReq(b)) /\ ~HasSession(redis, u)) =>
      \A r \in Interleavings(redis, AssignReq(u), EndAllReq(b)) :
        (r.l1.status = 200 /\ r.l1.body.apiId = b /\ r.l2.status = 200) =>
          \/ ~HasSession(r.st, u)
          \/ /\ r.st.user[u].val.apiId = b
             /\ u \in ActiveUsers(r.st, b)
             /\ ActiveCount(r.st, b) >= 1

(* ---------------------------------------------------------------------- *)
(* C37                                                                     *)
(* ---------------------------------------------------------------------- *)

\* C37: when end-session for u overlaps the get-api-session that creates
\* u's session, then after both have answered, if u has no session record,
\* u is in no backend's active-user set and no activeCount counts it.
C37_EndOverlappingAssign ==
  \A u \in UserIds :
    (BothArrived(AssignReq(u), EndReq(u)) /\ ~HasSession(redis, u)
       /\ \A b \in ApiIds : u \notin ActiveUsers(redis, b)) =>
      \A r \in Interleavings(redis, AssignReq(u), EndReq(u)) :
        (r.l1.status = 200 /\ ~HasSession(r.st, u)) =>
          \A b \in ApiIds :
            /\ u \notin ActiveUsers(r.st, b)
            /\ ActiveCount(r.st, b) = ActiveCount(redis, b)

(* ---------------------------------------------------------------------- *)
(* C38                                                                     *)
(* ---------------------------------------------------------------------- *)

\* C38: when toggle-api-status (id, e) and an update-api for id that
\* supplies no enabled flag overlap and both answer 200, the stored
\* descriptor afterwards has enabled = e and carries the fields the
\* update supplied.
C38_DescriptorWritesNotLost ==
  \A id \in ApiIds, en \in {"true", "false"}, key \in {"", "k2"}, max \in Capacities \cup {0} :
    LET t == ToggleReq(id, en)
        w == UpdateReq(id, key, "", max, "undefined")
    IN BothArrived(t, w) =>
         \A r \in Interleavings(redis, t, w) :
           (r.l1.status = 200 /\ r.l2.status = 200) =>
             /\ id \in DOMAIN r.st.apiPool
             /\ r.st.apiPool[id].enabled = (en = "true")
             /\ key # "" => r.st.apiPool[id].apiKey = key
             /\ max > 0 => r.st.apiPool[id].maxSessions = max

====
